---------------------------- MODULE Spec2Model ----------------------------
(***************************************************************************)
(* Version ordering, constraint ranges and range intersection of           *)
(* pypackage's dep_types.rs, as a state machine over the values the        *)
(* functions are applied to.                                               *)
(*                                                                         *)
(* Option<T> is a sequence of length 0 (None) or 1 (Some(x)).              *)
(* A tuple (x, y) is the sequence <<x, y>>.  Vec<T> is a sequence.         *)
(***************************************************************************)
EXTENDS Integers, Sequences, FiniteSets, TLC

VARIABLES pc, a, b, c, cs, ranges1, ranges2, ord_out, bool_out, rng_out, text, parsed, req,
          added, cfg, merged

vars ==
    <<pc, a, b, c, cs, ranges1, ranges2, ord_out, bool_out, rng_out, text, parsed, req,
      added, cfg, merged>>

-----------------------------------------------------------------------------
(* Program constants *)

\* pub const MAX_VER: u32 = 999_999
MAX_VER == 999999

-----------------------------------------------------------------------------
(* Bounds of the model *)

\* major, minor and patch of the Versions drawn range over 0..MaxComp
MaxComp == 1

\* extra_num of the Versions drawn is None or Some(0..MaxExtra)
MaxExtra == 1

\* the modifier number of the Versions drawn ranges over 0..MaxModNum
MaxModNum == 0

\* the longest list of Constraints built for intersection_many
MaxLen == 2

\* the longest list of ranges built for intersection
MaxRanges == 2

\* the longest name compared
MaxName == 2

\* the width u32 is scaled to: the least number of bits that holds MAX_VER
UBits == 20

\* a text shorter than MaxText can be extended by one more token
MaxText == 4

-----------------------------------------------------------------------------
(* Option *)

None == << >>

Some(x) == << x >>

unwrap_or(o, d) == IF o = None THEN d ELSE o[1]

\* u32::MAX at the scaled width
U32_MAX == 2 ^ UBits - 1

\* x + n on u32 without overflow checks (release builds): the sum wraps
wrapping_add(x, n) == (x + n) % (U32_MAX + 1)

\* x + n on u32 overflows: a panic with overflow checks (debug builds)
add_overflows(x, n) == x + n > U32_MAX

-----------------------------------------------------------------------------
(* VersionModifier *)

VersionModifier == {"Alpha", "Beta", "ReleaseCandidate", "Dep", "Null"}

orderval(m) ==
    CASE m = "Null" -> 4
      [] m = "ReleaseCandidate" -> 3
      [] m = "Beta" -> 2
      [] m = "Alpha" -> 1
      [] m = "Dep" -> 0

\* u8::cmp, u32::cmp
int_cmp(x, y) == IF x < y THEN "Less" ELSE IF x = y THEN "Equal" ELSE "Greater"

modifier_cmp(m1, m2) == int_cmp(orderval(m1), orderval(m2))

-----------------------------------------------------------------------------
(* Version *)

Version(major, minor, patch, extra_num, modifier) ==
    [major |-> major, minor |-> minor, patch |-> patch,
     extra_num |-> extra_num, modifier |-> modifier]

new(major, minor, patch) == Version(major, minor, patch, None, None)

new_short(major, minor) == Version(major, minor, 0, None, None)

_max == new(MAX_VER, 0, 0)

cmp(self, other) ==
    LET self_mod == unwrap_or(self.modifier, <<"Null", 0>>)
        other_mod == unwrap_or(other.modifier, <<"Null", 0>>)
    IN  IF self.major # other.major THEN int_cmp(self.major, other.major)
        ELSE IF self.minor # other.minor THEN int_cmp(self.minor, other.minor)
        ELSE IF self.patch # other.patch THEN int_cmp(self.patch, other.patch)
        ELSE IF self.extra_num # other.extra_num
             THEN int_cmp(unwrap_or(self.extra_num, 0), unwrap_or(other.extra_num, 0))
        ELSE IF self_mod[1] # other_mod[1] THEN modifier_cmp(self_mod[1], other_mod[1])
        ELSE int_cmp(self_mod[2], other_mod[2])

\* the comparison operators PartialOrd derives from partial_cmp
lt(x, y) == cmp(x, y) = "Less"

le(x, y) == cmp(x, y) \in {"Less", "Equal"}

gt(x, y) == cmp(x, y) = "Greater"

ge(x, y) == cmp(x, y) \in {"Greater", "Equal"}

-----------------------------------------------------------------------------
(* Constraint *)

ReqType == {"Exact", "Gte", "Lte", "Ne", "Gt", "Lt", "Caret", "Tilde"}

Constraint(type_, version) == [type_ |-> type_, version |-> version]

\* no decrement: the exclusive bound is returned as it is
safely_subtract_nothing(major, minor, patch) == <<major, minor, patch>>

\* the patch decremented whatever its value, with no roll-over and no clamp
safely_subtract_patch(major, minor, patch) == <<major, minor, patch - 1>>

\* the closure safely_subtract of compatible_range; the result is (major, minor, patch)
safely_subtract(major, minor, patch) ==
    IF major = 0 /\ minor = 0 /\ patch = 0 THEN <<major, minor, patch>>
    ELSE IF minor = 0 /\ patch = 0 THEN <<major - 1, MAX_VER, MAX_VER>>
    ELSE IF patch = 0 THEN <<major, minor - 1, MAX_VER>>
    ELSE <<major, minor, patch - 1>>

\* the Gt arm as the Gte arm: the patch is not incremented
compatible_range_gt_inclusive(self) ==
    << <<self.version, new(MAX_VER, 0, 0)>> >>

\* the Gt arm of compatible_range
compatible_range_gt(self) ==
    LET highest == new(MAX_VER, 0, 0)
    IN  << <<new(self.version.major, self.version.minor,
                 wrapping_add(self.version.patch, 1)), highest>> >>

\* the Ne arm as the Lt arm: the range above the version is left out
compatible_range_ne_below(self) ==
    LET lowest == new(0, 0, 0)
        sub == safely_subtract(self.version.major, self.version.minor, self.version.patch)
    IN  << <<lowest, new(sub[1], sub[2], sub[3])>> >>

\* the Ne arm of compatible_range
compatible_range_ne(self) ==
    LET highest == new(MAX_VER, 0, 0)
        lowest == new(0, 0, 0)
        sub == safely_subtract(self.version.major, self.version.minor, self.version.patch)
    IN  << <<lowest, new(sub[1], sub[2], sub[3])>>,
           <<new(self.version.major, self.version.minor,
                 wrapping_add(self.version.patch, 1)), highest>> >>

compatible_range(self) ==
    LET highest == new(MAX_VER, 0, 0)
        lowest == new(0, 0, 0)
        v == self.version
        sub == safely_subtract(v.major, v.minor, v.patch)
    IN  CASE self.type_ = "Exact" -> << <<v, v>> >>
          [] self.type_ = "Gte" -> << <<v, highest>> >>
          [] self.type_ = "Lte" -> << <<lowest, v>> >>
          [] self.type_ = "Gt" -> compatible_range_gt(self)
          [] self.type_ = "Lt" -> << <<lowest, new(sub[1], sub[2], sub[3])>> >>
          [] self.type_ = "Ne" -> compatible_range_ne(self)
          [] self.type_ = "Caret" ->
                LET max == IF v.major > 0 THEN new(wrapping_add(v.major, 1), 0, 0)
                           ELSE IF v.minor > 0 THEN new(0, wrapping_add(v.minor, 1), 0)
                           ELSE new(0, 0, wrapping_add(v.patch, 2))
                    m == safely_subtract(max.major, max.minor, max.patch)
                IN  << <<v, new(m[1], m[2], m[3])>> >>
          [] self.type_ = "Tilde" ->
                LET max == IF v.minor > 0 THEN new(v.major, wrapping_add(v.minor, 1), 0)
                           ELSE new(wrapping_add(v.major, 1), 0, 0)
                    m == safely_subtract(max.major, max.minor, max.patch)
                IN  << <<v, new(m[1], m[2], m[3])>> >>

\* some addition of compatible_range overflows u32 for this Constraint
compatible_range_overflows(self) ==
    LET v == self.version
    IN  CASE self.type_ \in {"Gt", "Ne"} -> add_overflows(v.patch, 1)
          [] self.type_ = "Caret" ->
                IF v.major > 0 THEN add_overflows(v.major, 1)
                ELSE IF v.minor > 0 THEN add_overflows(v.minor, 1)
                ELSE add_overflows(v.patch, 2)
          [] self.type_ = "Tilde" ->
                IF v.minor > 0 THEN add_overflows(v.minor, 1)
                ELSE add_overflows(v.major, 1)
          [] OTHER -> FALSE

\* the Caret arm with 0.0.patch admitting patch alone (max = 0.0.(patch + 1))
is_compatible_caret_exact(self, version) ==
    LET min == self.version
        max == IF self.version.major > 0
                 THEN new(self.version.major + 1, 0, 0)
               ELSE IF self.version.minor > 0
                 THEN new(0, self.version.minor + 1, 0)
               ELSE new(0, 0, self.version.patch + 1)
    IN  le(min, version) /\ lt(version, max)

\* the Caret arm of is_compatible
is_compatible_caret(self, version) ==
    LET min == self.version
        max == IF self.version.major > 0
                 THEN new(wrapping_add(self.version.major, 1), 0, 0)
               ELSE IF self.version.minor > 0
                 THEN new(0, wrapping_add(self.version.minor, 1), 0)
               ELSE new(0, 0, wrapping_add(self.version.patch, 2))
    IN  le(min, version) /\ lt(version, max)

is_compatible(self, version) ==
    LET min == self.version
    IN  CASE self.type_ = "Exact" -> self.version = version
          [] self.type_ = "Gte" -> le(self.version, version)
          [] self.type_ = "Lte" -> ge(self.version, version)
          [] self.type_ = "Gt" -> lt(self.version, version)
          [] self.type_ = "Lt" -> gt(self.version, version)
          [] self.type_ = "Ne" -> self.version # version
          [] self.type_ = "Caret" -> is_compatible_caret(self, version)
          [] self.type_ = "Tilde" ->
                LET max == IF self.version.minor > 0
                             THEN new(self.version.major,
                                      wrapping_add(self.version.minor, 1), 0)
                           ELSE new(wrapping_add(self.version.major, 1), 0, 0)
                IN  lt(min, version) /\ lt(version, max)

\* some addition of is_compatible overflows u32 for this Constraint
is_compatible_overflows(self) ==
    LET v == self.version
    IN  CASE self.type_ = "Caret" ->
                IF v.major > 0 THEN add_overflows(v.major, 1)
                ELSE IF v.minor > 0 THEN add_overflows(v.minor, 1)
                ELSE add_overflows(v.patch, 2)
          [] self.type_ = "Tilde" ->
                IF v.minor > 0 THEN add_overflows(v.minor, 1)
                ELSE add_overflows(v.major, 1)
          [] OTHER -> FALSE

-----------------------------------------------------------------------------
(* Range algebra *)

\* std::cmp::max: the second argument when the two compare Equal
cmp_max(v1, v2) == IF cmp(v1, v2) = "Greater" THEN v1 ELSE v2

\* std::cmp::min: the first argument when the two compare Equal
cmp_min(v1, v2) == IF cmp(v1, v2) = "Greater" THEN v2 ELSE v1

\* the test with ranges that only touch at a bound taken as disjoint
overlaps_strict(rng1, rng2) == gt(rng2[2], rng1[1]) /\ gt(rng1[2], rng2[1])

\* the test of the inner loop of intersection: rng1 and rng2 overlap
overlaps(rng1, rng2) == ge(rng2[2], rng1[1]) /\ ge(rng1[2], rng2[1])

RECURSIVE intersection_inner(_, _, _)
\* for rng2 in ranges2 { if overlaps { result.push((max, min)) } }, for one rng1
intersection_inner(rng1, ranges2_, result) ==
    IF ranges2_ = << >> THEN result
    ELSE LET rng2 == Head(ranges2_)
         IN  intersection_inner(rng1, Tail(ranges2_),
                 IF overlaps(rng1, rng2)
                 THEN Append(result, <<cmp_max(rng2[1], rng1[1]),
                                       cmp_min(rng1[2], rng2[2])>>)
                 ELSE result)

RECURSIVE intersection_outer(_, _, _)
\* for rng1 in ranges1 { ... }
intersection_outer(ranges1_, ranges2_, result) ==
    IF ranges1_ = << >> THEN result
    ELSE intersection_outer(Tail(ranges1_), ranges2_,
             intersection_inner(Head(ranges1_), ranges2_, result))

intersection(ranges1_, ranges2_) == intersection_outer(ranges1_, ranges2_, << >>)

RECURSIVE fold_intersection(_, _)
\* reqs.iter().fold(acc, |acc, constraint_set| intersection(&[*constraint_set], &acc))
fold_intersection(reqs, acc) ==
    IF reqs = << >> THEN acc
    ELSE fold_intersection(Tail(reqs), intersection(<<Head(reqs)>>, acc))

intersection_many2(reqs) ==
    LET init == << <<new(0, 0, 0), new(MAX_VER, 0, 0)>> >>
    IN  fold_intersection(reqs, init)

intersection_many(constrs) ==
    LET ranges == [i \in 1..Len(constrs) |->
                      IF constrs[i].type_ = "Ne"
                      THEN <<new(0, 0, 0), _max>>
                      ELSE compatible_range(constrs[i])[1]]
    IN  intersection_many2(ranges)

-----------------------------------------------------------------------------
(* Texts: Version::from_str and the renderings of a Version *)

\* A text is a sequence of characters and a character a string; "U+0663"
\* stands for the character ARABIC-INDIC DIGIT THREE, which the regex class \d
\* matches and u32::from_str rejects.
AsciiDigits == <<"0", "1", "2", "3", "4", "5", "6", "7", "8", "9">>

is_ascii_digit(ch) == \E i \in 1..10 : AsciiDigits[i] = ch

digit_value(ch) == (CHOOSE i \in 1..10 : AsciiDigits[i] = ch) - 1

\* the regex class \d
is_digit(ch) == is_ascii_digit(ch) \/ ch = "U+0663"

\* Result: Ok(value) or Err(DependencyError { details })
Ok(value) == [ok |-> TRUE, value |-> value]

Err(details) == [ok |-> FALSE, details |-> details]

RECURSIVE parse_digits(_, _)
\* the number read digit by digit; it stays where it is once above u32::MAX
parse_digits(digits, acc) ==
    IF digits = << >> \/ acc > U32_MAX THEN acc
    ELSE parse_digits(Tail(digits), acc * 10 + digit_value(Head(digits)))

\* str::parse::<u32>() followed by `?`: the ParseIntError becomes a DependencyError
parse_u32(digits) ==
    IF digits = << >> \/ \E i \in 1..Len(digits) : ~is_ascii_digit(digits[i])
    THEN Err(<<"Pare int error">>)
    ELSE IF parse_digits(digits, 0) > U32_MAX THEN Err(<<"Pare int error">>)
    ELSE Ok(parse_digits(digits, 0))

RECURSIVE u32_to_string(_)
\* u32::to_string: the decimal digits, no leading zero
u32_to_string(n) ==
    IF n < 10 THEN <<AsciiDigits[n + 1]>>
    ELSE Append(u32_to_string(n \div 10), AsciiDigits[(n % 10) + 1])

\* no replacement: the text as it is
replace_nothing(s, from, to) == s

\* s.replace(from, to) for single characters
replace(s, from, to) == [i \in 1..Len(s) |-> IF s[i] = from THEN to ELSE s[i]]

VersionModifier_from_str(s) ==
    CASE s = <<"a">> -> Ok("Alpha")
      [] s = <<"b">> -> Ok("Beta")
      [] s = <<"r", "c">> -> Ok("ReleaseCandidate")
      [] s = <<"d", "e", "p">> -> Ok("Dep")
      [] OTHER -> Err(<<"Problem parsing version modifier">>)

\* VersionModifier::to_string; Null panics and is never stored on a Version
VersionModifier_to_string(m) ==
    CASE m = "Alpha" -> <<"a">>
      [] m = "Beta" -> <<"b">>
      [] m = "ReleaseCandidate" -> <<"r", "c">>
      [] m = "Dep" -> <<"d", "e", "p">>

RECURSIVE digits_end(_, _)
\* (\d+)? from position i, greedy: the position after the run of digits
digits_end(s, i) ==
    IF i <= Len(s) /\ is_digit(s[i]) THEN digits_end(s, i + 1) ELSE i

\* \.? from position i, greedy: the position after the dot if there is one
dot_end(s, i) == IF i <= Len(s) /\ s[i] = "." THEN i + 1 ELSE i

\* s holds the characters of t from position i on
has_at(s, i, t) ==
    /\ i + Len(t) - 1 <= Len(s)
    /\ \A k \in 1..Len(t) : s[i + k - 1] = t[k]

\* (a|b|rc|dep) at position i, or the empty text
tag_at(s, i) ==
    IF has_at(s, i, <<"a">>) THEN <<"a">>
    ELSE IF has_at(s, i, <<"b">>) THEN <<"b">>
    ELSE IF has_at(s, i, <<"r", "c">>) THEN <<"r", "c">>
    ELSE IF has_at(s, i, <<"d", "e", "p">>) THEN <<"d", "e", "p">>
    ELSE << >>

\* re.captures(s) for ^(\d+)\.?(\d+)?\.?(\d+)?\.?(\d+)?(?:(a|b|rc|dep)(\d+))?$ :
\* None, or Some of the six groups, a group that did not take part being empty.
\* pos[k] is the position after the k-th of (\d+) \.? (\d+)? \.? (\d+)? \.? (\d+)?
version_captures(s) ==
    LET pos[k \in 1..7] ==
            IF k = 1 THEN digits_end(s, 1)
            ELSE IF k % 2 = 0 THEN dot_end(s, pos[k - 1])
            ELSE digits_end(s, pos[k - 1])
        numbers == <<SubSeq(s, 1, pos[1] - 1), SubSeq(s, pos[2], pos[3] - 1),
                     SubSeq(s, pos[4], pos[5] - 1), SubSeq(s, pos[6], pos[7] - 1)>>
        suffix(tag, e6) ==
            IF tag # << >> /\ e6 > pos[7] + Len(tag) /\ e6 = Len(s) + 1
            THEN Some(numbers \o <<tag, SubSeq(s, pos[7] + Len(tag), e6 - 1)>>)
            ELSE None
        tagged(tag) == suffix(tag, digits_end(s, pos[7] + Len(tag)))
    IN  IF pos[1] = 1 THEN None
        ELSE IF pos[7] = Len(s) + 1 THEN Some(numbers \o << << >>, << >> >>)
        ELSE tagged(tag_at(s, pos[7]))

\* impl FromStr for Version
Version_from_str(s_) ==
    LET result(caps, major, minor, patch, extra_num, m, num) ==
            IF ~major.ok THEN major
            ELSE IF ~minor.ok THEN minor
            ELSE IF ~patch.ok THEN patch
            ELSE IF ~extra_num.ok THEN extra_num
            ELSE IF caps[5] # << >> /\ ~m.ok THEN m
            ELSE IF caps[5] # << >> /\ ~num.ok THEN num
            ELSE Ok(Version(major.value, minor.value, patch.value,
                            IF caps[4] # << >> THEN Some(extra_num.value) ELSE None,
                            IF caps[5] # << >> THEN Some(<<m.value, num.value>>)
                            ELSE None))
        parse(s, caps) ==
            result(caps,
                   parse_u32(caps[1]),
                   IF caps[2] # << >> THEN parse_u32(caps[2]) ELSE Ok(0),
                   IF caps[3] # << >> THEN parse_u32(caps[3]) ELSE Ok(0),
                   IF caps[4] # << >> THEN parse_u32(caps[4]) ELSE Ok(0),
                   VersionModifier_from_str(caps[5]),
                   IF caps[6] # << >> THEN parse_u32(caps[6])
                   ELSE Err(<<"Problem parsing version modifier: ">> \o s))
        captured(s, re) ==
            IF re = None THEN Err(<<"Problem parsing version: ">> \o s)
            ELSE parse(s, re[1])
        from(s) == captured(s, version_captures(s))
    IN  from(replace(s_, "*", "0"))

\* no suffix: neither the extra_num nor the modifier is appended
add_str_mod_nothing(self, s) == s

add_str_mod(self, s) ==
    s \o (IF self.extra_num # None
          THEN <<".">> \o u32_to_string(self.extra_num[1]) ELSE << >>)
      \o (IF self.modifier # None
          THEN VersionModifier_to_string(self.modifier[1][1])
                 \o u32_to_string(self.modifier[1][2])
          ELSE << >>)

to_string_med(self) ==
    add_str_mod(self, u32_to_string(self.major) \o <<".">> \o u32_to_string(self.minor))

to_string_short(self) == add_str_mod(self, u32_to_string(self.major))

to_string2(self) ==
    add_str_mod(self, u32_to_string(self.major) \o <<".">> \o u32_to_string(self.minor)
                        \o <<".">> \o u32_to_string(self.patch))

-----------------------------------------------------------------------------
(* Texts: Constraint::from_str *)

\* the operator tokens with >= read as Gt: the longer token is not recognised
ReqType_from_str_short(s) ==
    CASE s = <<"=", "=">> -> Ok("Exact")
      [] s = <<">", "=">> -> Ok("Gt")
      [] s = <<"<", "=">> -> Ok("Lt")
      [] s = <<">">> -> Ok("Gt")
      [] s = <<"<">> -> Ok("Lt")
      [] s = <<"!", "=">> -> Ok("Ne")
      [] s = <<"^">> -> Ok("Caret")
      [] s = <<"~">> -> Ok("Tilde")
      [] OTHER -> Err(<<"Problem parsing ReqType">>)

\* impl FromStr for ReqType
ReqType_from_str(s) ==
    CASE s = <<"=", "=">> -> Ok("Exact")
      [] s = <<">", "=">> -> Ok("Gte")
      [] s = <<"<", "=">> -> Ok("Lte")
      [] s = <<">">> -> Ok("Gt")
      [] s = <<"<">> -> Ok("Lt")
      [] s = <<"!", "=">> -> Ok("Ne")
      [] s = <<"^">> -> Ok("Caret")
      [] s = <<"~">> -> Ok("Tilde")
      [] OTHER -> Err(<<"Problem parsing ReqType">>)

\* (\^|~|==|<=|>=|<|>|!=) at position i of s: the first alternative that
\* matches, or the empty text
operator_at(s, i) ==
    IF has_at(s, i, <<"^">>) THEN <<"^">>
    ELSE IF has_at(s, i, <<"~">>) THEN <<"~">>
    ELSE IF has_at(s, i, <<"=", "=">>) THEN <<"=", "=">>
    ELSE IF has_at(s, i, <<"<", "=">>) THEN <<"<", "=">>
    ELSE IF has_at(s, i, <<">", "=">>) THEN <<">", "=">>
    ELSE IF has_at(s, i, <<"<">>) THEN <<"<">>
    ELSE IF has_at(s, i, <<">">>) THEN <<">">>
    ELSE IF has_at(s, i, <<"!", "=">>) THEN <<"!", "=">>
    ELSE << >>

\* (\^|~|==|<=|>=|<|>|!=)? at the start of s
operator_at_start(s) == operator_at(s, 1)

\* re.captures(s) for ^(\^|~|==|<=|>=|<|>|!=)?(.*)$ : None when s holds a line
\* feed, which . does not match; otherwise Some of the two groups
constraint_captures(s) ==
    IF \E i \in 1..Len(s) : s[i] = "\n" THEN None
    ELSE Some(<<operator_at_start(s),
                SubSeq(s, Len(operator_at_start(s)) + 1, Len(s))>>)

\* impl FromStr for Constraint
Constraint_from_str(s) ==
    LET result(type_, version) ==
            IF ~type_.ok THEN type_
            ELSE IF ~version.ok THEN version
            ELSE Ok(Constraint(type_.value, version.value))
        parse(caps) ==
            result(IF caps[1] # << >> THEN ReqType_from_str(caps[1]) ELSE Ok("Exact"),
                   Version_from_str(caps[2]))
        captured(re) ==
            IF re = None THEN Err(<<"Problem parsing constraint">>) ELSE parse(re[1])
    IN  IF s = <<"*">> THEN Ok(Constraint("Gte", new(0, 0, 0)))
        ELSE captured(constraint_captures(s))

-----------------------------------------------------------------------------
(* Texts: Constraint::from_str_multiple, parse_extras, Req::from_str and
   Req::from_pip_str *)

\* s.replace(ch, "")
remove(s, ch) == SelectSeq(s, LAMBDA x : x # ch)

\* no splitting: the text is one piece
split_whole(s, sep) == <<s>>

RECURSIVE split(_, _)
\* s.split(sep): the pieces between the separators, one piece for a text without
split(s, sep) ==
    IF \E i \in 1..Len(s) : s[i] = sep
    THEN LET i == CHOOSE i \in 1..Len(s) : s[i] = sep /\ \A j \in 1..(i - 1) : s[j] # sep
         IN  <<SubSeq(s, 1, i - 1)>> \o split(SubSeq(s, i + 1, Len(s)), sep)
    ELSE <<s>>

\* Constraint::from_str_multiple: for req in vers.split(',') the result of
\* Self::from_str(req) is pushed, and the first Err is returned
from_str_multiple(vers) ==
    LET collect(results) ==
            IF \E k \in 1..Len(results) : ~results[k].ok
            THEN results[CHOOSE k \in 1..Len(results) :
                             ~results[k].ok /\ \A j \in 1..(k - 1) : results[j].ok]
            ELSE Ok([k \in 1..Len(results) |-> results[k].value])
        each(pieces) == collect([k \in 1..Len(pieces) |-> Constraint_from_str(pieces[k])])
    IN  each(split(remove(vers, " "), ","))

\* the letters of the texts drawn
Letters ==
    { "a", "b", "c", "d", "e", "f", "g", "i", "j", "k", "l", "n", "o", "p", "r", "s",
      "t", "u", "z", "D" }

\* the class [a-zA-Z\-0-9] of from_pip_str
is_pip_name_char(ch) == ch \in Letters \/ is_ascii_digit(ch) \/ ch = "-"

\* the class [a-zA-Z\-0-9._] of Req::from_str
is_name_char(ch) == is_pip_name_char(ch) \/ ch = "." \/ ch = "_"

\* Req { name, constraints, extra, sys_platform, python_version, install_with_extras }
Req(name, constraints, extra, sys_platform, python_version) ==
    [name |-> name, constraints |-> constraints, extra |-> extra,
     sys_platform |-> sys_platform, python_version |-> python_version,
     install_with_extras |-> None]

\* crate::Os::from_str(val): Windows32 for "win32"; for another text the
\* result is os_other, the outcome of a function that is not in this file
Os_from_str(val, os_other) ==
    IF val = <<"w", "i", "n", "3", "2">> THEN Ok("Windows32") ELSE os_other

\* one iteration of the loop of parse_extras panics: the clause is a captures
\* of ex_re, <<type_, req_type, val>>
clause_panics(caps, os_other) ==
    CASE caps[1] = "sys_platform" ->
            ~ReqType_from_str(caps[2]).ok \/ ~Os_from_str(caps[3], os_other).ok
      [] caps[1] = "python_version" -> ~Constraint_from_str(caps[2] \o caps[3]).ok
      [] OTHER -> FALSE

\* parse_extras panics on the marker clauses m (None, or Some of the captures
\* ex_re finds)
parse_extras_panics(m, os_other) ==
    /\ m # None
    /\ \E k \in 1..Len(m[1]) : clause_panics(m[1][k], os_other)

\* the last clause of a type in the clauses, 0 without one
last_of(clauses, type_) ==
    IF \E k \in 1..Len(clauses) : clauses[k][1] = type_
    THEN CHOOSE k \in 1..Len(clauses) :
             /\ clauses[k][1] = type_
             /\ \A j \in (k + 1)..Len(clauses) : clauses[j][1] # type_
    ELSE 0

\* parse_extras when it does not panic: (extra, sys_platform, python_version),
\* each what the last clause of its type assigned
parse_extras(m, os_other) ==
    IF m = None THEN <<None, None, None>>
    ELSE LET e == last_of(m[1], "extra")
             s == last_of(m[1], "sys_platform")
             p == last_of(m[1], "python_version")
         IN  << IF e = 0 THEN None ELSE Some(m[1][e][3]),
                IF s = 0 THEN None
                ELSE Some(<<ReqType_from_str(m[1][s][2]).value,
                            Os_from_str(m[1][s][3], os_other).value>>),
                IF p = 0 THEN None
                ELSE Some(Constraint_from_str(m[1][p][2] \o m[1][p][3]).value) >>

\* the text has no line feed: the . of a regex matches every other character
one_line(s) == \A i \in 1..Len(s) : s[i] # "\n"

\* ^([a-zA-Z\-0-9._]+)$ matches the name
name_ok(name) == name # << >> /\ \A i \in 1..Len(name) : is_name_char(name[i])

RECURSIVE marker_text(_)
\* the text of the marker clauses
marker_text(clauses) ==
    IF clauses = << >> THEN << >>
    ELSE LET caps == Head(clauses)
         IN  <<" ", caps[1], " ">> \o caps[2] \o <<" ", "'">> \o caps[3] \o <<"'">>
               \o marker_text(Tail(clauses))

\* the line a requirement r with the version part vers is: name (vers) ; marker
\* in the metadata style, name = "vers" in the manifest style
req_line(r, vers) ==
    IF r.pypi_fmt
    THEN r.name \o (IF r.versions THEN <<" ", "(">> \o vers \o <<")">> ELSE << >>)
           \o (IF r.marker = None THEN << >> ELSE <<" ", ";">> \o marker_text(r.marker[1]))
    ELSE r.name \o (IF r.versions THEN <<" ", "=", " ", "\"">> \o vers \o <<"\"">> ELSE << >>)

\* re.captures(s) of Req::from_str succeeds on req_line(r, vers)
req_re_matches(r, vers) ==
    /\ r.versions
    /\ one_line(vers)
    /\ r.pypi_fmt => name_ok(r.name)

\* novers_re.captures(s) of Req::from_str succeeds on req_line(r, vers)
novers_re_matches(r, vers) == ~r.versions /\ name_ok(r.name)

\* caps.get(3) of re and caps.get(2) of novers_re: the marker, None in the
\* manifest style, whose regexes have no such group
marker_match(r) == IF r.pypi_fmt THEN r.marker ELSE None

\* Req::from_str(req_line(r, vers), r.pypi_fmt) panics
Req_from_str_panics(r, vers, os_other) ==
    /\ \/ req_re_matches(r, vers) /\ from_str_multiple(vers).ok
       \/ ~req_re_matches(r, vers) /\ novers_re_matches(r, vers)
    /\ parse_extras_panics(marker_match(r), os_other)

\* Req::from_str(req_line(r, vers), r.pypi_fmt) when it does not panic
Req_from_str(r, vers, os_other) ==
    LET extras == parse_extras(marker_match(r), os_other)
    IN  IF req_re_matches(r, vers)
        THEN LET constraints == from_str_multiple(vers)
             IN  IF constraints.ok
                 THEN Ok(Req(r.name, constraints.value, extras[1], extras[2], extras[3]))
                 ELSE constraints
        ELSE IF novers_re_matches(r, vers)
        THEN Ok(Req(r.name, << >>, extras[1], extras[2], extras[3]))
        ELSE Err(<<"Problem parsing version requirement: ">> \o req_line(r, vers))

\* ^([a-zA-Z\-0-9]+)$ matches s
pip_name_only(s) == s # << >> /\ \A i \in 1..Len(s) : is_pip_name_char(s[i])

\* where group 2 of ^(.*?)((?:\^|~|==|<=|>=|<|>|!=).*)$ starts in s: the first
\* position an operator is at, 0 when the regex does not match
pip_operator_start(s) ==
    IF one_line(s) /\ \E i \in 1..Len(s) : operator_at(s, i) # << >>
    THEN CHOOSE i \in 1..Len(s) :
             /\ operator_at(s, i) # << >>
             /\ \A j \in 1..(i - 1) : operator_at(s, j) = << >>
    ELSE 0

\* Req::from_pip_str(s) panics: .expect("Problem parsing requirement")
from_pip_str_panics(s) ==
    /\ ~pip_name_only(s)
    /\ pip_operator_start(s) # 0
    /\ ~Constraint_from_str(SubSeq(s, pip_operator_start(s), Len(s))).ok

\* Req::from_pip_str(s) when it does not panic
from_pip_str(s) ==
    IF pip_name_only(s) THEN Some(Req(s, << >>, None, None, None))
    ELSE IF pip_operator_start(s) = 0 THEN None
    ELSE LET i == pip_operator_start(s)
         IN  Some(Req(SubSeq(s, 1, i - 1),
                      <<Constraint_from_str(SubSeq(s, i, Len(s))).value>>,
                      None, None, None))

-----------------------------------------------------------------------------
(* Texts: Constraint::to_string and Req::to_cfg_string *)

\* impl ToString for ReqType
ReqType_to_string(self) ==
    CASE self = "Exact" -> <<"=", "=">>
      [] self = "Gte" -> <<">", "=">>
      [] self = "Lte" -> <<"<", "=">>
      [] self = "Gt" -> <<">">>
      [] self = "Lt" -> <<"<">>
      [] self = "Ne" -> <<"!", "=">>
      [] self = "Caret" -> <<"^">>
      [] self = "Tilde" -> <<"~">>

\* impl fmt::Display for Version, which version.to_string() goes through:
\* major.minor.patch and the suffix. The colour values between the numbers
\* add no character to the text: the unit tests req_tostring_single_reqs and
\* req_tostring_multiple_reqs expect none
Version_to_string(self) ==
    u32_to_string(self.major) \o <<".">> \o u32_to_string(self.minor) \o <<".">>
      \o u32_to_string(self.patch)
      \o (IF self.extra_num # None
          THEN <<".">> \o u32_to_string(self.extra_num[1]) ELSE << >>)
      \o (IF self.modifier # None
          THEN VersionModifier_to_string(self.modifier[1][1])
                 \o u32_to_string(self.modifier[1][2])
          ELSE << >>)

\* the operator token is written for Exact as well
Constraint_to_string_equals(self, ommit_equals, pip_style) ==
    ReqType_to_string(self.type_)
      \o (IF pip_style /\ self.type_ \in {"Caret", "Tilde"} THEN <<"=">> ELSE << >>)
      \o Version_to_string(self.version)

\* Constraint::to_string
Constraint_to_string(self, ommit_equals, pip_style) ==
    (IF ommit_equals /\ self.type_ = "Exact" THEN << >> ELSE ReqType_to_string(self.type_))
      \o (IF pip_style /\ self.type_ \in {"Caret", "Tilde"} THEN <<"=">> ELSE << >>)
      \o Version_to_string(self.version)

RECURSIVE join(_, _)
\* strs.join(sep)
join(strs, sep) ==
    IF strs = << >> THEN << >>
    ELSE IF Len(strs) = 1 THEN strs[1]
    ELSE strs[1] \o sep \o join(Tail(strs), sep)

\* Req::to_cfg_string when it returns; info is the result of
\* dep_resolution::get_version_info(&self.name), read only without constraints
to_cfg_string(self, info) ==
    IF Len(self.constraints) = 0
    THEN info.value[1] \o <<" ", "=", " ", "\"">>
           \o Constraint_to_string(Constraint("Caret", info.value[2]), TRUE, FALSE)
           \o <<"\"">>
    ELSE self.name \o <<" ", "=", " ", "\"">>
           \o join([k \in 1..Len(self.constraints) |->
                       Constraint_to_string(self.constraints[k], TRUE, FALSE)],
                   <<",", " ">>)
           \o <<"\"">>

-----------------------------------------------------------------------------
(* Names: util::standardize_name and util::compare_names *)

\* char::to_lowercase: an ASCII capital becomes its small letter, U+0130 (LATIN
\* CAPITAL LETTER I WITH DOT ABOVE) becomes i followed by U+0307, every other
\* character of the names drawn stays
char_to_lowercase(ch) ==
    CASE ch = "A" -> <<"a">>
      [] ch = "B" -> <<"b">>
      [] ch = "D" -> <<"d">>
      [] ch = "P" -> <<"p">>
      [] ch = "U+0130" -> <<"i", "U+0307">>
      [] OTHER -> <<ch>>

RECURSIVE to_lowercase(_)
\* str::to_lowercase
to_lowercase(s) ==
    IF s = << >> THEN << >> ELSE char_to_lowercase(Head(s)) \o to_lowercase(Tail(s))

\* no case folding: only the separator is replaced
standardize_name_cased(name) == replace(name, "-", "_")

\* util::standardize_name
standardize_name(name) == replace(to_lowercase(name), "-", "_")

\* util::compare_names
compare_names(name1, name2) == standardize_name(name1) = standardize_name(name2)

-----------------------------------------------------------------------------
(* Texts: Constraint::from_wh_py_vers *)

\* re.captures(part) for ^(?:cp|py|pp)?([234])(\d)?$ : None, or Some of the two
\* groups, the second empty when it did not take part
wh_captures(part) ==
    LET matched(i) ==
            IF i <= Len(part) /\ part[i] \in {"2", "3", "4"}
            THEN IF Len(part) = i THEN Some(<<<<part[i]>>, << >>>>)
                 ELSE IF Len(part) = i + 1 /\ is_digit(part[i + 1])
                 THEN Some(<<<<part[i]>>, <<part[i + 1]>>>>)
                 ELSE None
            ELSE None
    IN  IF \/ has_at(part, 1, <<"c", "p">>)
           \/ has_at(part, 1, <<"p", "y">>)
           \/ has_at(part, 1, <<"p", "p">>)
        THEN matched(3)
        ELSE matched(1)

\* the body of the loop of from_wh_py_vers for one part: the Constraints it
\* pushes, none for a part the regex does not match, or the error of `?`
wh_part(part) ==
    LET pushed(caps, major, minor) ==
            IF ~major.ok THEN major
            ELSE IF caps[2] # << >>
            THEN IF ~minor.ok THEN minor
                 ELSE Ok(<<Constraint("Exact", new_short(major.value, minor.value))>>)
            ELSE IF major.value = 2 THEN Ok(<<Constraint("Lte", new_short(2, 10))>>)
            ELSE Ok(<<Constraint("Gte", new_short(3, 0))>>)
        captured(re) ==
            IF re = None THEN Ok(<< >>)
            ELSE pushed(re[1], parse_u32(re[1][1]), parse_u32(re[1][2]))
    IN  captured(wh_captures(part))

\* for part in s_split { ... }: the Constraints pushed, in order, or the first
\* error
wh_parts(parts) ==
    LET collect(results) ==
            IF \E k \in 1..Len(results) : ~results[k].ok
            THEN results[CHOOSE k \in 1..Len(results) :
                             ~results[k].ok /\ \A j \in 1..(k - 1) : results[j].ok]
            ELSE LET upto[k \in 0..Len(results)] ==
                         IF k = 0 THEN << >> ELSE upto[k - 1] \o results[k].value
                 IN  Ok(upto[Len(results)])
    IN  collect([k \in 1..Len(parts) |-> wh_part(parts[k])])

\* Constraint::from_wh_py_vers
from_wh_py_vers(s) ==
    LET other(parsed_) ==
            IF parsed_.ok THEN Ok(<<Constraint("Exact", parsed_.value)>>)
            ELSE wh_parts(split(s, "."))
    IN  IF s = <<"a", "n", "y">> THEN Ok(<<Constraint("Gte", new(2, 0, 0))>>)
        ELSE other(Version_from_str(s))

-----------------------------------------------------------------------------
(* util::merge_reqs *)

\* Req::from_str(&p, false) for each added line, in order; a line is the name
\* and, when it has one, the version part of name = "vers"
added_reqs(added_) ==
    [k \in 1..Len(added_) |->
        Req_from_str([pypi_fmt |-> FALSE, name |-> added_[k].name,
                      versions |-> added_[k].versions, marker |-> None],
                     added_[k].vers, Err(<< >>))]

\* the closure of the filter of merge_reqs: the added Req is kept unless the
\* config holds the same Req, or holds its name (case aside) and the added Req
\* has no constraint
add(ar, reqs) ==
    ~\E k \in 1..Len(reqs) :
         \/ reqs[k] = ar
         \/ to_lowercase(reqs[k].name) = to_lowercase(ar.name) /\ ar.constraints = << >>

\* added_reqs.into_iter().filter(...).collect()
added_reqs_unique(parsed_, reqs) ==
    SelectSeq([k \in 1..Len(parsed_) |-> parsed_[k].value], LAMBDA ar : add(ar, reqs))

\* the loop that gives an added Req without constraints the Caret of the latest
\* version, vers
with_latest(unique, vers) ==
    [k \in 1..Len(unique) |->
        IF unique[k].constraints = << >>
        THEN [unique[k] EXCEPT !.constraints = <<Constraint("Caret", vers)>>]
        ELSE unique[k]]

\* the Req pushed for the config Req cr: the first added Req of its name with
\* other constraints, or cr
merged_req(cr, unique) ==
    LET replacing == {k \in 1..Len(unique) :
                         /\ compare_names(unique[k].name, cr.name)
                         /\ unique[k].constraints # cr.constraints}
    IN  IF replacing = {} THEN cr
        ELSE unique[CHOOSE k \in replacing : \A j \in replacing : k <= j]

\* the result of merge_reqs from the added Reqs kept: the config Reqs, replaced
\* where an added Req takes their place, and then result.append(&mut
\* added_reqs_unique)
merge(unique, reqs) == [k \in 1..Len(reqs) |-> merged_req(reqs[k], unique)] \o unique

-----------------------------------------------------------------------------
(* The values drawn *)

Comps == 0..MaxComp

Extras == {None} \cup {Some(n) : n \in 0..MaxExtra}

Modifiers ==
    {None} \cup {Some(<<m, n>>) : m \in VersionModifier \ {"Null"}, n \in 0..MaxModNum}

Versions ==
    {Version(ma, mi, p, e, m) : ma \in Comps, mi \in Comps, p \in Comps,
                                e \in Extras, m \in Modifiers}

-----------------------------------------------------------------------------
(* Version ordering: a.cmp(&b) *)

NoVersion == new(0, 0, 0)

NoConstraint == [type_ |-> "Exact", version |-> NoVersion]

NoResult == [ok |-> FALSE, details |-> << >>]

NoReq == [pypi_fmt |-> FALSE, name |-> << >>, versions |-> FALSE, marker |-> None]

InitOrd ==
    /\ pc = "start"
    /\ a \in Versions
    /\ b \in Versions
    /\ c = NoConstraint
    /\ cs = << >>
    /\ ranges1 = << >>
    /\ ranges2 = << >>
    /\ ord_out = "Equal"
    /\ bool_out = FALSE
    /\ rng_out = << >>
    /\ text = << >>
    /\ parsed = NoResult
    /\ added = << >>
    /\ cfg = << >>
    /\ merged = << >>
    /\ req = NoReq

Compare ==
    /\ pc = "start"
    /\ pc' = "cmp"
    /\ ord_out' = cmp(a, b)
    /\ UNCHANGED <<a, b, c, cs, ranges1, ranges2, bool_out, rng_out, text, parsed, req,
                   added, cfg, merged>>

NextOrd == Compare

SpecOrd == InitOrd /\ [][NextOrd]_vars

\* the three numbers of a Version
Release(v) == <<v.major, v.minor, v.patch>>

\* C3: exactly one of a < b, a == b, a > b holds, with == the structural
\* equality of all five fields; the comparison is Equal only for equal Versions.
C3_TotalOrder ==
    pc = "cmp" =>
        /\ (ord_out = "Less") \/ (a = b) \/ (ord_out = "Greater")
        /\ ~(ord_out = "Less" /\ a = b)
        /\ ~(ord_out = "Greater" /\ a = b)
        /\ ord_out = "Equal" => a = b

\* the tuple (major, minor, patch, extra_num or 0, modifier rank, modifier number),
\* an absent modifier having the highest rank and the number 0
RankOf(m) ==
    CASE m = "Dep" -> 0 [] m = "Alpha" -> 1 [] m = "Beta" -> 2
      [] m = "ReleaseCandidate" -> 3

OrderKey(v) ==
    <<v.major, v.minor, v.patch,
      IF v.extra_num = None THEN 0 ELSE v.extra_num[1],
      IF v.modifier = None THEN 4 ELSE RankOf(v.modifier[1][1]),
      IF v.modifier = None THEN 0 ELSE v.modifier[1][2]>>

\* the lexicographic comparison of two tuples of numbers of the same length
Lexicographic(k1, k2) ==
    IF k1 = k2 THEN "Equal"
    ELSE LET i == CHOOSE i \in 1..Len(k1) :
                     k1[i] # k2[i] /\ \A j \in 1..(i - 1) : k1[j] = k2[j]
         IN  IF k1[i] < k2[i] THEN "Less" ELSE "Greater"

\* C4: comparing a with b gives the lexicographic comparison of their tuples
\* (major, minor, patch, extra_num or 0, modifier rank, modifier number).
C4_Lexicographic ==
    pc = "cmp" => ord_out = Lexicographic(OrderKey(a), OrderKey(b))

\* C5: for all Versions a and b with equal major, minor and patch, where a has
\* no modifier and b has one (whatever their extra_num), a > b.
C5_ReleaseAbovePrerelease ==
    (pc = "cmp" /\ Release(a) = Release(b) /\ a.modifier = None /\ b.modifier # None)
        => ord_out = "Greater"

-----------------------------------------------------------------------------
(* Constraint::compatible_range and Constraint::is_compatible *)

\* the Versions of the unit tests compat_caret, compat_rng and parse_req_tilde_short
TestedVersions ==
    {new(1, 2, 3), new(1, 9, 9), new(2, 0, 0), new(0, 2, 3), new(0, 2, 9),
     new(0, 3, 0), new(0, 0, 3), new(0, 0, 4), new(0, 0, 5), new(5, 1, 3),
     new(6, 7, 0)}

\* the Versions a constraint is tested against: those drawn, and the plain ones
\* up to two steps past them, where the exclusive bounds of Caret and Tilde lie
Candidates ==
    Versions \cup TestedVersions
      \cup {new(ma, mi, p) : ma \in 0..MaxComp + 2, mi \in 0..MaxComp + 2,
                             p \in 0..MaxComp + 2}

Constraints ==
    {Constraint(t, v) : t \in ReqType, v \in Versions \cup TestedVersions}

InitCompat ==
    /\ pc = "start"
    /\ a = NoVersion
    /\ b = NoVersion
    /\ c \in Constraints
    /\ cs = << >>
    /\ ranges1 = << >>
    /\ ranges2 = << >>
    /\ ord_out = "Equal"
    /\ bool_out = FALSE
    /\ rng_out = << >>
    /\ text = << >>
    /\ parsed = NoResult
    /\ added = << >>
    /\ cfg = << >>
    /\ merged = << >>
    /\ req = NoReq

\* rng_out = c.compatible_range(); an overflowing addition panics in a build
\* with overflow checks and wraps in one without
CompatibleRange ==
    /\ pc = "start"
    /\ \E overflow_checks \in BOOLEAN :
          IF overflow_checks /\ compatible_range_overflows(c)
          THEN pc' = "panic" /\ rng_out' = rng_out
          ELSE pc' = "compatible_range" /\ rng_out' = compatible_range(c)
    /\ UNCHANGED <<a, b, c, cs, ranges1, ranges2, ord_out, bool_out, text, parsed, req,
                   added, cfg, merged>>

\* bool_out = c.is_compatible(&b)
IsCompatible ==
    /\ pc = "start"
    /\ \E version \in Candidates, overflow_checks \in BOOLEAN :
          /\ b' = version
          /\ IF overflow_checks /\ is_compatible_overflows(c)
             THEN pc' = "panic" /\ bool_out' = bool_out
             ELSE pc' = "is_compatible" /\ bool_out' = is_compatible(c, version)
    /\ UNCHANGED <<a, c, cs, ranges1, ranges2, ord_out, rng_out, text, parsed, req,
                   added, cfg, merged>>

NextCompat == CompatibleRange \/ IsCompatible

SpecCompat == InitCompat /\ [][NextCompat]_vars

\* v lies inside one of the ranges, bounds inclusive under the Version ordering
InSomeRange(v, ranges) ==
    \E i \in 1..Len(ranges) : le(ranges[i][1], v) /\ le(v, ranges[i][2])

\* C1: for every Constraint c and Version v, c.is_compatible(v) is true exactly
\* when v lies inside at least one (min, max) pair of c.compatible_range().
C1_Agreement ==
    pc = "is_compatible" => (bool_out <=> InSomeRange(b, compatible_range(c)))

\* the first Version a Caret constraint on v excludes
NextBreaking(v) ==
    CASE v.major > 0 -> new(v.major + 1, 0, 0)
      [] v.major = 0 /\ v.minor > 0 -> new(0, v.minor + 1, 0)
      [] v.major = 0 /\ v.minor = 0 -> new(0, 0, v.patch + 2)

C30_RangesWellFormed ==
    (pc = "compatible_range" /\ c.version.major < MAX_VER /\ c.version.minor < MAX_VER
        /\ c.version.patch < MAX_VER) =>
        \A k \in 1..Len(rng_out) : le(rng_out[k][1], rng_out[k][2])

\* C25: Exact(v), Gte(v), Lte(v), Caret(v) and Tilde(v) each admit v itself
C25_AdmitsOwnVersion ==
    (/\ pc = "is_compatible"
     /\ c.type_ \in {"Exact", "Gte", "Lte", "Caret", "Tilde"}
     /\ b = c.version) => bool_out

-----------------------------------------------------------------------------
(* intersection_many *)

\* the Versions of the constraints: no modifier or rc0, no extra_num or .0
ManyVersions ==
    {v \in Versions : /\ v.extra_num \in {None, Some(0)}
                      /\ v.modifier \in {None, Some(<<"ReleaseCandidate", 0>>)}}

ManyConstraints == {Constraint(t, v) : t \in ReqType, v \in ManyVersions}

\* the lists of the unit tests intersections_empty, compat_rng and
\* intersection_contained_many_w_ne
TestedLists ==
    { <<Constraint("Exact", new(4, 9, 4)), Constraint("Gte", new(4, 9, 7))>>,
      <<Constraint("Lte", new(4, 9, 6)), Constraint("Gte", new(4, 9, 7))>>,
      <<Constraint("Gte", new(5, 1, 0))>>,
      <<Constraint("Ne", new(5, 1, 3))>>,
      <<Constraint("Ne", new(2, 0, 4)), Constraint("Ne", new(2, 1, 2)),
        Constraint("Ne", new(2, 1, 6)), Constraint("Gte", new(2, 0, 1)),
        Constraint("Gte", new(2, 0, 2))>> }

InitMany ==
    /\ pc = "start"
    /\ a = NoVersion
    /\ b = NoVersion
    /\ c = NoConstraint
    /\ cs \in {<< >>} \cup TestedLists
    /\ ranges1 = << >>
    /\ ranges2 = << >>
    /\ ord_out = "Equal"
    /\ bool_out = FALSE
    /\ rng_out = << >>
    /\ text = << >>
    /\ parsed = NoResult
    /\ added = << >>
    /\ cfg = << >>
    /\ merged = << >>
    /\ req = NoReq

\* the caller appends a Constraint to the list
PushConstraint ==
    /\ pc = "start"
    /\ Len(cs) < MaxLen
    /\ \E constr \in ManyConstraints : cs' = Append(cs, constr)
    /\ UNCHANGED <<pc, a, b, c, ranges1, ranges2, ord_out, bool_out, rng_out, text,
                   parsed, req, added, cfg, merged>>

\* rng_out = intersection_many(&cs)
IntersectionMany ==
    /\ pc = "start"
    /\ pc' = "intersection_many"
    /\ rng_out' = intersection_many(cs)
    /\ UNCHANGED <<a, b, c, cs, ranges1, ranges2, ord_out, bool_out, text, parsed, req,
                   added, cfg, merged>>

NextMany == PushConstraint \/ IntersectionMany

SpecMany == InitMany /\ [][NextMany]_vars

\* the permutations of 1..n
Orderings(n) == {f \in [1..n -> 1..n] : \A i, j \in 1..n : f[i] = f[j] => i = j}

\* C2: for every list cs and every permutation p of cs, intersection_many(cs)
\* and intersection_many(p) are equal lists of ranges (structural equality).
C2_OrderIndependent ==
    pc = "intersection_many" =>
        \A f \in Orderings(Len(cs)) :
            intersection_many([i \in 1..Len(cs) |-> cs[f[i]]]) = rng_out

\* v - 1: the safe decrement of (major, minor, patch)
Dec(v) ==
    CASE v.patch > 0 -> new(v.major, v.minor, v.patch - 1)
      [] v.patch = 0 /\ v.minor > 0 -> new(v.major, v.minor - 1, MAX_VER)
      [] v.patch = 0 /\ v.minor = 0 /\ v.major > 0 -> new(v.major - 1, MAX_VER, MAX_VER)
      [] OTHER -> new(0, 0, 0)

\* C6: intersection_many of a list holding a single Ne(v) returns the two
\* ranges [0.0.0, v-1] and [v+1, MAX_VER.0.0].
C6_SingleNe ==
    (pc = "intersection_many" /\ Len(cs) = 1 /\ cs[1].type_ = "Ne") =>
        rng_out = << <<new(0, 0, 0), Dec(cs[1].version)>>,
                     <<new(cs[1].version.major, cs[1].version.minor,
                           cs[1].version.patch + 1), new(MAX_VER, 0, 0)>> >>

\* C7: for every list cs with at least one non-Ne constraint,
\* intersection_many(cs) equals intersection_many of cs without its Ne constraints.
C7_NePassThrough ==
    (pc = "intersection_many" /\ \E i \in 1..Len(cs) : cs[i].type_ # "Ne") =>
        rng_out = intersection_many(SelectSeq(cs, LAMBDA x : x.type_ # "Ne"))

\* the range the fold starts from
StartRange == <<new(0, 0, 0), new(MAX_VER, 0, 0)>>

\* the single ranges of the constraints of a list without Ne, and the start range
RangesOf(constrs) ==
    {compatible_range(constrs[i])[1] : i \in 1..Len(constrs)} \cup {StartRange}

\* x <= y in the specified ordering: lexicographic over (major, minor, patch,
\* extra_num or 0, modifier rank, modifier number)
Below(x, y) == Lexicographic(OrderKey(x), OrderKey(y)) # "Greater"

\* x lies inside the range, bounds inclusive
Within(x, range) == Below(range[1], x) /\ Below(x, range[2])

\* some Version lies inside every range (if one does, so does a lower bound)
HasCommonVersion(ranges) ==
    \E x \in {r[1] : r \in ranges} : \A r \in ranges : Within(x, r)

\* C8: for every list cs without Ne, intersection_many(cs) is empty when the
\* ranges of cs and the start range have no common Version, and otherwise holds
\* exactly one range (greatest lower bound, least upper bound); for one Gte(v),
\* v inside the start range, it is [(v, MAX_VER.0.0)].
C8_FoldOfSingleRanges ==
    (pc = "intersection_many" /\ \A i \in 1..Len(cs) : cs[i].type_ # "Ne") =>
        LET ranges == RangesOf(cs)
        IN  /\ ~HasCommonVersion(ranges) => rng_out = << >>
            /\ HasCommonVersion(ranges) =>
                  /\ Len(rng_out) = 1
                  /\ \E r \in ranges : rng_out[1][1] = r[1]
                  /\ \A r \in ranges : Below(r[1], rng_out[1][1])
                  /\ \E r \in ranges : rng_out[1][2] = r[2]
                  /\ \A r \in ranges : Below(rng_out[1][2], r[2])
            /\ (Len(cs) = 1 /\ cs[1].type_ = "Gte" /\ Within(cs[1].version, StartRange)) =>
                  rng_out = << <<cs[1].version, new(MAX_VER, 0, 0)>> >>

-----------------------------------------------------------------------------
(* compatible_range, operator by operator *)

\* the exclusive upper bound of Tilde(v)
TildeBound(v) ==
    IF v.minor > 0 THEN new(v.major, v.minor + 1, 0) ELSE new(v.major + 1, 0, 0)

C12_LtRange ==
    (pc = "compatible_range" /\ c.type_ = "Lt") =>
        /\ rng_out = << <<new(0, 0, 0), Dec(c.version)>> >>
        /\ \A k \in 1..2 : /\ rng_out[1][k].major >= 0
                            /\ rng_out[1][k].minor >= 0
                            /\ rng_out[1][k].patch >= 0
        /\ Release(c.version) = <<0, 0, 0>> => rng_out[1][2] = new(0, 0, 0)

\* the range of Lt(1.0.0) was computed: the decrement rolls over minor and patch
C12_Witness ==
    /\ pc = "compatible_range"
    /\ c = Constraint("Lt", new(1, 0, 0))
    /\ rng_out = << <<new(0, 0, 0), new(0, MAX_VER, MAX_VER)>> >>

\* C13: compatible_range returns exactly two ranges for Ne(v), [0.0.0, dec(v)]
\* followed by [major.minor.(patch+1), MAX_VER.0.0], and exactly one range for
\* each other operator; Ne(5.1.3) gives [(0.0.0, 5.1.2), (5.1.4, MAX_VER.0.0)].
C13_NeTwoRanges ==
    pc = "compatible_range" =>
        /\ c.type_ = "Ne" =>
              rng_out = << <<new(0, 0, 0), Dec(c.version)>>,
                           <<new(c.version.major, c.version.minor, c.version.patch + 1),
                             new(MAX_VER, 0, 0)>> >>
        /\ c.type_ # "Ne" => Len(rng_out) = 1
        /\ c = Constraint("Ne", new(5, 1, 3)) =>
              rng_out = << <<new(0, 0, 0), new(5, 1, 2)>>,
                           <<new(5, 1, 4), new(MAX_VER, 0, 0)>> >>

\* the ranges of Ne(5.1.3) were computed
C13_Witness ==
    /\ pc = "compatible_range"
    /\ c = Constraint("Ne", new(5, 1, 3))
    /\ Len(rng_out) = 2

\* C14: compatible_range gives [(v, v)] for Exact(v), [(v, MAX_VER.0.0)] for
\* Gte(v), [(0.0.0, v)] for Lte(v) and [(major.minor.(patch+1), MAX_VER.0.0)]
\* for Gt(v), the open upper bound being Version::_max() = (MAX_VER, 0, 0).
C14_SimpleRanges ==
    pc = "compatible_range" =>
        /\ c.type_ = "Exact" => rng_out = << <<c.version, c.version>> >>
        /\ c.type_ = "Gte" => rng_out = << <<c.version, _max>> >>
        /\ c.type_ = "Lte" => rng_out = << <<new(0, 0, 0), c.version>> >>
        /\ c.type_ = "Gt" =>
              rng_out = << <<new(c.version.major, c.version.minor, c.version.patch + 1),
                             _max>> >>
        /\ _max = Version(MAX_VER, 0, 0, None, None)

\* the range of Gt(1.2.3) was computed: only the patch is incremented
C14_Witness ==
    /\ pc = "compatible_range"
    /\ c = Constraint("Gt", new(1, 2, 3))
    /\ rng_out = << <<new(1, 2, 4), new(MAX_VER, 0, 0)>> >>

-----------------------------------------------------------------------------
(* compatible_range and is_compatible over the whole of u32 *)

\* the components drawn: the least, MAX_VER and the greatest of u32
Extremes == {0, 1, MAX_VER, U32_MAX - 1, U32_MAX}

ExtremeConstraints ==
    {Constraint(t, new(ma, mi, p)) :
        t \in ReqType, ma \in Extremes, mi \in Extremes, p \in Extremes}

InitTotal ==
    /\ pc = "start"
    /\ a = NoVersion
    /\ b = NoVersion
    /\ c \in ExtremeConstraints
    /\ cs = << >>
    /\ ranges1 = << >>
    /\ ranges2 = << >>
    /\ ord_out = "Equal"
    /\ bool_out = FALSE
    /\ rng_out = << >>
    /\ text = << >>
    /\ parsed = NoResult
    /\ added = << >>
    /\ cfg = << >>
    /\ merged = << >>
    /\ req = NoReq

SpecTotal == InitTotal /\ [][NextCompat]_vars

\* C15: for every operator and every Version whose major, minor and patch are
\* any u32 values, compatible_range and is_compatible return a result with no
\* arithmetic overflow and no abort.
C15_Total ==
    /\ pc # "panic"
    /\ pc = "compatible_range" => ~compatible_range_overflows(c)
    /\ pc = "is_compatible" => ~is_compatible_overflows(c)

-----------------------------------------------------------------------------
(* Version::from_str, to_string2 and to_string_med *)

\* the texts of the unit tests version_parse, version_parse_w_wildcard,
\* version_parse_w_modifiers and bad_version
TestedTexts ==
    { <<"3", ".", "1", "2", ".", "5">>, <<"0", ".", "1", ".", "0">>,
      <<"3", ".", "7">>, <<"1">>,
      <<"3", ".", "2", ".", "*">>, <<"1", ".", "*">>, <<"1", ".", "*", ".", "*">>,
      <<"1", "9", ".", "3", "b", "0">>, <<"1", ".", "3", ".", "5", "r", "c", "0">>,
      <<"1", ".", "3", ".", "5", ".", "1", "1">>,
      <<"5", ".", "2", ".", "5", ".", "1", "1", "b", "3">>,
      <<"3", "-", "7">> }

\* the renderings of the Versions drawn
RenderedTexts ==
    {to_string2(v) : v \in Versions} \cup {to_string_med(v) : v \in Versions}
      \cup {to_string_short(v) : v \in Versions}

\* the pieces a text is put together from: digits, the dot, the wildcard, tags,
\* a character outside the grammar, a digit outside ASCII, u32::MAX and ten
\* times u32::MAX
Tokens ==
    { <<"0">>, <<"1">>, <<".">>, <<"*">>, <<"a">>, <<"r", "c">>, <<"-">>,
      <<"U+0663">>, u32_to_string(U32_MAX), Append(u32_to_string(U32_MAX), "0") }

InitParse ==
    /\ pc = "start"
    /\ a = NoVersion
    /\ b = NoVersion
    /\ c = NoConstraint
    /\ cs = << >>
    /\ ranges1 = << >>
    /\ ranges2 = << >>
    /\ ord_out = "Equal"
    /\ bool_out = FALSE
    /\ rng_out = << >>
    /\ text \in {<< >>} \cup TestedTexts \cup RenderedTexts
    /\ parsed = NoResult
    /\ added = << >>
    /\ cfg = << >>
    /\ merged = << >>
    /\ req = NoReq

\* the caller extends the text
PushToken ==
    /\ pc = "start"
    /\ Len(text) < MaxText
    /\ \E token \in Tokens : text' = text \o token
    /\ UNCHANGED <<pc, a, b, c, cs, ranges1, ranges2, ord_out, bool_out, rng_out,
                   parsed, req, added, cfg, merged>>

\* parsed = Version::from_str(text); a is the Version when there is one
FromStr ==
    /\ pc = "start"
    /\ pc' = "from_str"
    /\ parsed' = Version_from_str(text)
    /\ a' = IF parsed'.ok THEN parsed'.value ELSE a
    /\ UNCHANGED <<b, c, cs, ranges1, ranges2, ord_out, bool_out, rng_out, text, req,
                   added, cfg, merged>>

\* parsed = Version::from_str(&a.to_string2())
RoundTrip2 ==
    /\ pc = "from_str"
    /\ parsed.ok
    /\ pc' = "to_string2"
    /\ text' = to_string2(a)
    /\ parsed' = Version_from_str(text')
    /\ UNCHANGED <<a, b, c, cs, ranges1, ranges2, ord_out, bool_out, rng_out, req,
                   added, cfg, merged>>

\* parsed = Version::from_str(&a.to_string_med())
RoundTripMed ==
    /\ pc = "from_str"
    /\ parsed.ok
    /\ pc' = "to_string_med"
    /\ text' = to_string_med(a)
    /\ parsed' = Version_from_str(text')
    /\ UNCHANGED <<a, b, c, cs, ranges1, ranges2, ord_out, bool_out, rng_out, req,
                   added, cfg, merged>>

NextParse == PushToken \/ FromStr \/ RoundTrip2 \/ RoundTripMed

SpecParse == InitParse /\ [][NextParse]_vars

\* the version grammar major(.minor)?(.patch)?(.extra)?(tag num)? of a text:
\* one to four numbers of ASCII digits, a dot between two of them, then
\* nothing or one of the tags a, b, rc, dep with its number
Tags == { <<"a">>, <<"b">>, <<"r", "c">>, <<"d", "e", "p">> }

AllDigits(t) == Len(t) >= 1 /\ \A i \in 1..Len(t) : is_ascii_digit(t[i])

DotsOf(t) == {i \in 1..Len(t) : t[i] = "."}

IsNumbers(t) ==
    /\ Len(t) >= 1
    /\ \A i \in 1..Len(t) : is_ascii_digit(t[i]) \/ t[i] = "."
    /\ t[1] # "." /\ t[Len(t)] # "."
    /\ \A i \in DotsOf(t) : (i + 1) \notin DotsOf(t)
    /\ Cardinality(DotsOf(t)) <= 3

IsSuffix(t) ==
    \/ t = << >>
    \/ \E tag \in Tags : /\ has_at(t, 1, tag)
                         /\ AllDigits(SubSeq(t, Len(tag) + 1, Len(t)))

\* the place where the numbers end and the suffix starts, 0 if the text is not
\* of the grammar
SuffixAt(t) ==
    IF \E i \in 1..Len(t) : IsNumbers(SubSeq(t, 1, i)) /\ IsSuffix(SubSeq(t, i + 1, Len(t)))
    THEN CHOOSE i \in 1..Len(t) :
            IsNumbers(SubSeq(t, 1, i)) /\ IsSuffix(SubSeq(t, i + 1, Len(t)))
    ELSE 0

InGrammar(t) == SuffixAt(t) > 0

\* the k-th number of the numbers part t, empty if there are fewer
Number(t, k) ==
    LET dots == DotsOf(t)
        from == IF k = 1 THEN 1
                ELSE IF Cardinality(dots) >= k - 1
                     THEN (CHOOSE i \in dots : Cardinality({j \in dots : j < i}) = k - 2) + 1
                     ELSE Len(t) + 1
        to == IF Cardinality(dots) >= k
              THEN (CHOOSE i \in dots : Cardinality({j \in dots : j < i}) = k - 1) - 1
              ELSE Len(t)
    IN  SubSeq(t, from, to)

RECURSIVE StripZeros(_)
StripZeros(digits) ==
    IF Len(digits) > 1 /\ Head(digits) = "0" THEN StripZeros(Tail(digits)) ELSE digits

RECURSIVE Decimal(_)
\* the number a text of at most seven ASCII digits denotes
Decimal(digits) ==
    IF digits = << >> THEN 0
    ELSE Decimal(SubSeq(digits, 1, Len(digits) - 1)) * 10 + digit_value(digits[Len(digits)])

\* the digits denote a number within u32
Fits(digits) == Len(StripZeros(digits)) <= 7 /\ Decimal(StripZeros(digits)) <= U32_MAX

ValueOf(digits) == Decimal(StripZeros(digits))

\* the numbers of a text of the grammar, the number of its tag included
NumbersOf(t) ==
    LET i == SuffixAt(t)
        numbers == SubSeq(t, 1, i)
        suffix == SubSeq(t, i + 1, Len(t))
        tag == IF suffix = << >> THEN << >> ELSE CHOOSE g \in Tags : has_at(suffix, 1, g)
    IN  {Number(numbers, k) : k \in 1..(Cardinality(DotsOf(numbers)) + 1)}
          \cup (IF suffix = << >> THEN {} ELSE {SubSeq(suffix, Len(tag) + 1, Len(suffix))})

\* some tag of the grammar stands in the text with no digit after it
TagWithoutNumber(t) ==
    \E i \in 1..Len(t), tag \in Tags :
        /\ has_at(t, i, tag)
        /\ (i + Len(tag) > Len(t) \/ ~is_ascii_digit(t[i + Len(tag)]))

Denoted(t) ==
    LET i == SuffixAt(t)
        numbers == SubSeq(t, 1, i)
        suffix == SubSeq(t, i + 1, Len(t))
        count == Cardinality(DotsOf(numbers)) + 1
        tag == CHOOSE g \in Tags : has_at(suffix, 1, g)
        name == CASE tag = <<"a">> -> "Alpha" [] tag = <<"b">> -> "Beta"
                  [] tag = <<"r", "c">> -> "ReleaseCandidate"
                  [] tag = <<"d", "e", "p">> -> "Dep"
    IN  [major |-> ValueOf(Number(numbers, 1)),
         minor |-> IF count >= 2 THEN ValueOf(Number(numbers, 2)) ELSE 0,
         patch |-> IF count >= 3 THEN ValueOf(Number(numbers, 3)) ELSE 0,
         extra_num |-> IF count >= 4 THEN <<ValueOf(Number(numbers, 4))>> ELSE << >>,
         modifier |-> IF suffix = << >> THEN << >>
                      ELSE << <<name, ValueOf(SubSeq(suffix, Len(tag) + 1, Len(suffix)))>> >>]

\* C18: for every text of the version grammar (every '*' read as 0; numbers
\* within u32), Version::from_str yields major from the first number, minor and
\* patch from the second and third or 0, extra_num = Some(n) only with a fourth
\* number, modifier = Some((tag, n)) only with a tag and number, the tag never
\* Null; "3.7" gives 3.7.0, "1.*.*" 1.0.0, "1.3.5.11" extra 11, "5.2.5.11b3"
\* extra 11 and (Beta, 3).
C18_ParsedFields ==
    pc = "from_str" =>
        LET t == replace(text, "*", "0")
        IN  /\ (InGrammar(t) /\ \A n \in NumbersOf(t) : Fits(n)) =>
                  parsed = Ok(Denoted(t))
            /\ (parsed.ok /\ parsed.value.modifier # None) =>
                  parsed.value.modifier[1][1] \in VersionModifier \ {"Null"}
            /\ text = <<"3", ".", "7">> => parsed = Ok(new(3, 7, 0))
            /\ text = <<"1", ".", "*", ".", "*">> => parsed = Ok(new(1, 0, 0))
            /\ text = <<"1", ".", "3", ".", "5", ".", "1", "1">> =>
                  parsed = Ok(Version(1, 3, 5, Some(11), None))
            /\ text = <<"5", ".", "2", ".", "5", ".", "1", "1", "b", "3">> =>
                  parsed = Ok(Version(5, 2, 5, Some(11), Some(<<"Beta", 3>>)))

\* "1.*.*" was parsed into 1.0.0
C18_Witness ==
    /\ pc = "from_str"
    /\ text = <<"1", ".", "*", ".", "*">>
    /\ parsed = Ok(new(1, 0, 0))

\* C19: for every valid version text with v = parse(text), parsing
\* the full rendering of v (to_string2) gives v again, and parsing the medium
\* rendering of v (to_string_med) gives v again.
C19_RoundTrip ==
    (pc \in {"to_string2", "to_string_med"}) => parsed = Ok(a)

\* C19 with the medium rendering as it is: parsing to_string2 of v gives v
\* again; parsing to_string_med of v gives major.minor of v with v's modifier,
\* the patch being v's extra_num, or 0 without one, and no extra_num: v again
\* exactly when v has patch 0 and no extra_num.
C19_RoundTripFullAndShortened ==
    /\ pc = "to_string2" => parsed = Ok(a)
    /\ pc = "to_string_med" =>
          /\ parsed = Ok(Version(a.major, a.minor,
                                 IF a.extra_num = None THEN 0 ELSE a.extra_num[1],
                                 None, a.modifier))
          /\ parsed = Ok(a) <=> (a.patch = 0 /\ a.extra_num = None)

\* a Version with a modifier, patch 0 and no extra_num went through
\* to_string_med and back
C19_Witness ==
    /\ pc = "to_string_med"
    /\ a.minor > 0 /\ a.patch = 0 /\ a.extra_num = None /\ a.modifier # None
    /\ parsed = Ok(a)

-----------------------------------------------------------------------------
(* Constraint::from_str *)

OperatorTokens ==
    { <<"^">>, <<"~">>, <<"=", "=">>, <<"<", "=">>, <<">", "=">>, <<"<">>, <<">">>,
      <<"!", "=">> }

\* the texts of the unit tests constraint_w_modifier and constraint_to_string
TestedConstraintTexts ==
    { <<"!", "=", "2", ".", "3", "b", "3">>,
      <<"^", "1", ".", "3", ".", "3", "2", "r", "c", "1">>,
      <<"^", "1", ".", "3", ".", "3", "2", ".", "d", "e", "p", "1">>,
      <<"!", "=", "2", ".", "3">>, <<"^", "1", ".", "3", ".", "3", "2">>,
      <<"~", "2", ".", "3">>, <<"=", "=", "5">>,
      <<"<", "=", "1", "1", ".", "2", ".", "3">>, <<">", "=", "0", ".", "0", ".", "1">> }

\* how a text starts: with nothing, an operator token, a part of one, two of
\* them, or a line feed
Starts ==
    {<< >>} \cup OperatorTokens \cup { <<"=">>, <<"!">>, <<"<", "<">>, <<">", "~">>, <<"\n">> }

InitConstr ==
    /\ pc = "start"
    /\ a = NoVersion
    /\ b = NoVersion
    /\ c = NoConstraint
    /\ cs = << >>
    /\ ranges1 = << >>
    /\ ranges2 = << >>
    /\ ord_out = "Equal"
    /\ bool_out = FALSE
    /\ rng_out = << >>
    /\ text \in Starts \cup TestedConstraintTexts \cup TestedTexts
    /\ parsed = NoResult
    /\ added = << >>
    /\ cfg = << >>
    /\ merged = << >>
    /\ req = NoReq

\* parsed = Constraint::from_str(text)
ConstraintFromStr ==
    /\ pc = "start"
    /\ pc' = "constraint_from_str"
    /\ parsed' = Constraint_from_str(text)
    /\ UNCHANGED <<a, b, c, cs, ranges1, ranges2, ord_out, bool_out, rng_out, text,
                   req, added, cfg, merged>>

NextConstr == PushToken \/ ConstraintFromStr

SpecConstr == InitConstr /\ [][NextConstr]_vars

\* the operator token a text starts with, the longest there is, or the empty text
LeadingOperator(t) ==
    IF \E op \in OperatorTokens : has_at(t, 1, op)
    THEN CHOOSE op \in OperatorTokens :
            /\ has_at(t, 1, op)
            /\ \A other \in OperatorTokens : has_at(t, 1, other) => Len(other) <= Len(op)
    ELSE << >>

OperatorOf(op) ==
    CASE op = <<"^">> -> "Caret" [] op = <<"~">> -> "Tilde" [] op = <<"=", "=">> -> "Exact"
      [] op = <<"<", "=">> -> "Lte" [] op = <<">", "=">> -> "Gte" [] op = <<"<">> -> "Lt"
      [] op = <<">">> -> "Gt" [] op = <<"!", "=">> -> "Ne" [] op = << >> -> "Exact"

\* C20: Constraint::from_str reads an optional leading operator token
\* (^ ~ == <= >= < > !=) as Caret, Tilde, Exact, Lte, Gte, Lt, Gt, Ne and parses
\* the rest as a Version; without a token the operator is Exact; the text "*"
\* gives Gte(0.0.0); "!=2.3b3" gives Ne of 2.3.0 (Beta, 3), "==5" Exact(5.0.0).
C20_ConstraintFromStr ==
    pc = "constraint_from_str" =>
        LET op == LeadingOperator(text)
            rest == Version_from_str(SubSeq(text, Len(op) + 1, Len(text)))
        IN  /\ text = <<"*">> => parsed = Ok(Constraint("Gte", new(0, 0, 0)))
            /\ (text # <<"*">> /\ rest.ok) =>
                  parsed = Ok(Constraint(OperatorOf(op), rest.value))
            /\ (text # <<"*">> /\ ~rest.ok) => ~parsed.ok
            /\ text = <<"!", "=", "2", ".", "3", "b", "3">> =>
                  parsed = Ok(Constraint("Ne", Version(2, 3, 0, None, Some(<<"Beta", 3>>))))
            /\ text = <<"=", "=", "5">> => parsed = Ok(Constraint("Exact", new(5, 0, 0)))

\* ">=" followed by a version text was parsed into a Gte constraint
C20_Witness ==
    /\ pc = "constraint_from_str"
    /\ has_at(text, 1, <<">", "=">>)
    /\ parsed.ok
    /\ parsed.value.type_ = "Gte"

-----------------------------------------------------------------------------
(* The parsers of requirements: Constraint::from_str_multiple, Req::from_str and
   Req::from_pip_str *)

\* most clauses of a marker
MaxClauses == 2

\* the version parts of the unit tests constraint_multiple, parse_req_pypi_cplx,
\* parse_req_pypi, parse_req_pypi_w_extras, parse_req_withvers, parse_req_caret
\* and parse_req_tilde_short
TestedVersionParts ==
    {
      <<">", "=", "2", ".", "7", ",", " ", "!", "=", "3", ".", "0", ".", "0", ",", " ", "!", "=", "3", ".", "1", ".", "0", ",", " ", "!", "=", "3", ".", "2", ".", "0", ",", " ", "<", "=", "3", ".", "5", ".", "0">>,
      <<"!", "=", "1", ".", "2", "5", ".", "0", ",", "!", "=", "1", ".", "2", "5", ".", "1", ",", "<", "=", "1", ".", "2", "6">>,
      <<">", "=", "2", "0", "1", "6", ".", "3">>,
      <<">", "=", "0", ".", "1", "4">>,
      <<"3", ".", "1", ".", "4">>,
      <<"^", "2", ".", "7", ".", "1", "8">>,
      <<"~", "6", ".", "7">> }

\* lines of a requirements.txt: the one of parse_req_pip, a name alone, a name
\* with an operator and no version, with an operator and no number, a name with
\* a dot, a name and a version without an operator
PipLines ==
    {
      <<"D", "j", "a", "n", "g", "o", ">", "=", "2", ".", "2", "2">>,
      <<"s", "a", "t", "u", "r", "n">>,
      <<"s", "a", "t", "u", "r", "n", ">", "=">>,
      <<"s", "a", "t", "u", "r", "n", ">", "=", "x">>,
      <<"z", "c", ".", "l", "o", "c", "k", "f", "i", "l", "e">>,
      <<"s", "a", "t", "u", "r", "n", " ", "1">> }

\* names of the unit tests, the empty name and a name with a space
Names ==
    { << >>, <<"s", "a", "t", "u", "r", "n">>,
      <<"z", "c", ".", "l", "o", "c", "k", "f", "i", "l", "e">>, <<"a", " ", "b">> }

\* the clauses of a marker, each the captures <<type_, req_type, val>> of ex_re:
\* the one of parse_req_pypi_w_extras, the platform of the unit tests and
\* another, a version of Python and a text that is no version
Clauses ==
    { <<"extra", <<"=", "=">>, <<"s", "e", "c", "u", "r", "i", "t", "y">>>>,
      <<"sys_platform", <<"=", "=">>, <<"w", "i", "n", "3", "2">>>>,
      <<"sys_platform", <<"!", "=">>, <<"p", "l", "a", "n", "9">>>>,
      <<"python_version", <<">", "=">>, <<"2", ".", "7">>>>,
      <<"python_version", <<"<">>, <<"x">>>> }

\* lists of constraints with a piece that does not parse: an empty piece after
\* the last comma, a first piece that is no version
FailingLists ==
    { <<">", "=", "1", ",">>, <<"x", ",", " ", ">", "=", "1">> }

\* the texts handed to the parsers: of versions, of constraints, of version
\* parts and of lines, the empty text, an operator alone and a line feed
ReqTexts ==
    { << >>, <<">", "=">>, <<"\n">>, <<"3", "-", "7">>,
      <<"1", ".", "3", ".", "5", "r", "c", "0">>, <<"!", "=", "2", ".", "3", "b", "3">> }
      \cup TestedVersionParts \cup PipLines \cup FailingLists

\* the results crate::Os::from_str has for a text other than "win32"
OsResults == {Ok("Os"), Err(<<"Problem parsing Os">>)}

InitReq ==
    /\ pc = "start"
    /\ a = NoVersion
    /\ b = NoVersion
    /\ c = NoConstraint
    /\ cs = << >>
    /\ ranges1 = << >>
    /\ ranges2 = << >>
    /\ ord_out = "Equal"
    /\ bool_out = FALSE
    /\ rng_out = << >>
    /\ text \in ReqTexts
    /\ parsed = NoResult
    /\ added = << >>
    /\ cfg = << >>
    /\ merged = << >>
    /\ \E pypi_fmt \in BOOLEAN, name \in Names, versions \in BOOLEAN,
          marker \in {None, Some(<< >>)} :
          /\ ~pypi_fmt => marker = None
          /\ req = [pypi_fmt |-> pypi_fmt, name |-> name, versions |-> versions,
                    marker |-> marker]

\* the caller adds a clause to the marker of a line in the metadata style
PushClause ==
    /\ pc = "start"
    /\ req.pypi_fmt
    /\ req.marker # None
    /\ Len(req.marker[1]) < MaxClauses
    /\ \E clause \in Clauses :
          req' = [req EXCEPT !.marker = Some(Append(req.marker[1], clause))]
    /\ UNCHANGED <<pc, a, b, c, cs, ranges1, ranges2, ord_out, bool_out, rng_out, text,
                   parsed, added, cfg, merged>>

\* parsed = Constraint::from_str_multiple(text)
FromStrMultiple ==
    /\ pc = "start"
    /\ pc' = "from_str_multiple"
    /\ parsed' = from_str_multiple(text)
    /\ UNCHANGED <<a, b, c, cs, ranges1, ranges2, ord_out, bool_out, rng_out, text,
                   req, added, cfg, merged>>

\* parsed = Req::from_str(req_line(req, text), req.pypi_fmt), or the panic of it
ReqFromStr ==
    /\ pc = "start"
    /\ \E os_other \in OsResults :
          IF Req_from_str_panics(req, text, os_other)
          THEN pc' = "panic" /\ UNCHANGED parsed
          ELSE pc' = "req_from_str" /\ parsed' = Req_from_str(req, text, os_other)
    /\ UNCHANGED <<a, b, c, cs, ranges1, ranges2, ord_out, bool_out, rng_out, text,
                   req, added, cfg, merged>>

\* parsed = Req::from_pip_str(text), or the panic of it
FromPipStr ==
    /\ pc = "start"
    /\ IF from_pip_str_panics(text)
       THEN pc' = "panic" /\ UNCHANGED parsed
       ELSE pc' = "from_pip_str" /\ parsed' = from_pip_str(text)
    /\ UNCHANGED <<a, b, c, cs, ranges1, ranges2, ord_out, bool_out, rng_out, text,
                   req, added, cfg, merged>>

NextReq ==
    PushClause \/ FromStr \/ ConstraintFromStr \/ FromStrMultiple \/ ReqFromStr \/ FromPipStr

SpecReq == InitReq /\ [][NextReq]_vars

\* C16: no parser panics: Version::from_str, Constraint::from_str,
\* Constraint::from_str_multiple, Req::from_str in both styles, markers
\* included, and Req::from_pip_str return a result for every text
C16_NoPanic == pc # "panic"

\* the line is in the metadata style with a name, a version part whose
\* constraints all parse, and a marker or none
MetadataLine ==
    /\ req.pypi_fmt
    /\ name_ok(req.name)
    /\ req.versions
    /\ one_line(text)
    /\ from_str_multiple(text).ok

\* the clauses of a type in the marker of the line
ClausesOf(type_) ==
    IF req.marker = None THEN {}
    ELSE {k \in 1..Len(req.marker[1]) : req.marker[1][k][1] = type_}

\* the field is None without a clause of the type and Some(value) of such a
\* clause with one
FieldOf(field, type_, value(_)) ==
    IF ClausesOf(type_) = {} THEN field = None
    ELSE \E k \in ClausesOf(type_) : field = Some(value(req.marker[1][k]))

\* C21: on a line in the metadata style Req::from_str returns the name and the
\* constraints of the part before the marker, and for each of extra,
\* sys_platform and python_version Some(value) when the marker holds such a
\* clause and None when it does not; whatever else the marker holds does not
\* make the parse fail
C21_MetadataStyle ==
    MetadataLine =>
      /\ pc = "panic" => from_pip_str_panics(text)
      /\ pc = "req_from_str" =>
           /\ parsed.ok
           /\ parsed.value.name = req.name
           /\ parsed.value.constraints = from_str_multiple(text).value
           /\ LET val(caps) == caps[3]
                  sys(caps) == <<ReqType_from_str(caps[2]).value, "Windows32">>
                  py(caps) == Constraint_from_str(caps[2] \o caps[3]).value
              IN  /\ FieldOf(parsed.value.extra, "extra", val)
                  /\ \/ FieldOf(parsed.value.sys_platform, "sys_platform", sys)
                     \/ \E k \in ClausesOf("sys_platform") :
                           parsed.value.sys_platform =
                               Some(<<ReqType_from_str(req.marker[1][k][2]).value, "Os">>)
                  /\ FieldOf(parsed.value.python_version, "python_version", py)

\* the positions of the commas of a text
Commas(t) == {i \in 1..Len(t) : t[i] = ","}

\* where the k-th piece of a text ends: at the k-th comma, or past the text
Cut(t, k) ==
    IF k = 0 THEN 0
    ELSE IF k > Cardinality(Commas(t)) THEN Len(t) + 1
    ELSE CHOOSE i \in Commas(t) : Cardinality({j \in Commas(t) : j <= i}) = k

\* the pieces of a text between its commas, spaces dropped
PiecesOf(t) ==
    LET u == SelectSeq(t, LAMBDA ch : ch # " ")
    IN  [k \in 1..(Cardinality(Commas(u)) + 1) |-> SubSeq(u, Cut(u, k - 1) + 1, Cut(u, k) - 1)]

\* C26: from_str_multiple parses each piece between the commas of the text,
\* spaces removed, with Constraint::from_str; when every piece parses it returns
\* the Constraints in the order of the text, one per piece; when a piece fails,
\* an empty piece included, it returns that error
C26_FromStrMultiple ==
    pc = "from_str_multiple" =>
      LET pieces == PiecesOf(text)
          failing == {k \in 1..Len(pieces) : ~Constraint_from_str(pieces[k]).ok}
      IN  IF failing = {}
          THEN /\ parsed.ok
               /\ Len(parsed.value) = Len(pieces)
               /\ \A k \in 1..Len(pieces) :
                     parsed.value[k] = Constraint_from_str(pieces[k]).value
          ELSE /\ ~parsed.ok
               /\ \E k \in failing :
                     /\ \A j \in failing : k <= j
                     /\ parsed = Constraint_from_str(pieces[k])

C26_Witness ==
    /\ pc = "from_str_multiple"
    /\ \E i \in 1..Len(text) : text[i] = " "
    /\ parsed.ok
    /\ Len(parsed.value) = 5
    /\ parsed.value[2].type_ = "Ne"

\* a name made of letters, digits, '-', '.' and '_'
IsBareName(name) ==
    /\ name # << >>
    /\ \A i \in 1..Len(name) :
          name[i] \in Letters \cup {AsciiDigits[k] : k \in 1..10} \cup {"-", ".", "_"}

\* C22: a bare name is accepted by Req::from_str in both styles and by
\* Req::from_pip_str, and gives a Req of that name without constraints
C22_BareName ==
    /\ (pc = "req_from_str" /\ ~req.versions /\ req.marker = None /\ IsBareName(req.name))
          => parsed = Ok(Req(req.name, << >>, None, None, None))
    /\ (pc = "from_pip_str" /\ IsBareName(text))
          => parsed = Some(Req(text, << >>, None, None, None))

-----------------------------------------------------------------------------
(* Req::to_cfg_string *)

\* the Versions of the unit tests req_tostring_single_reqs and
\* req_tostring_multiple_reqs, one with an extra_num and one with a modifier
CfgVersions ==
    { new(3, 3, 6), new(2, 7, 4), new(3, 7, 0), Version(1, 0, 0, Some(1), None),
      Version(1, 3, 32, None, Some(<<"ReleaseCandidate", 1>>)) }

CfgConstraints == {Constraint(t, v) : t \in ReqType, v \in CfgVersions}

\* the results of dep_resolution::get_version_info: the name as the index
\* writes it and the latest version, or an error
VersionInfos ==
    { Ok(<<<<"P", "a", "c", "k", "a", "g", "e">>, new(3, 7, 0)>>), Err(<<"Problem getting version info">>) }

InitCfg ==
    /\ pc = "start"
    /\ a = NoVersion
    /\ b = NoVersion
    /\ c = NoConstraint
    /\ cs = << >>
    /\ ranges1 = << >>
    /\ ranges2 = << >>
    /\ ord_out = "Equal"
    /\ bool_out = FALSE
    /\ rng_out = << >>
    /\ text = << >>
    /\ parsed = NoResult
    /\ added = << >>
    /\ cfg = << >>
    /\ merged = << >>
    /\ req = [NoReq EXCEPT !.name = <<"p", "a", "c", "k", "a", "g", "e">>]

\* the caller adds a constraint to the Req
PushCfgConstraint ==
    /\ pc = "start"
    /\ Len(cs) < MaxLen
    /\ \E constr \in CfgConstraints : cs' = Append(cs, constr)
    /\ UNCHANGED <<pc, a, b, c, ranges1, ranges2, ord_out, bool_out, rng_out, text,
                   parsed, req, added, cfg, merged>>

\* text = Req { name: req.name, constraints: cs, .. }.to_cfg_string(): without
\* constraints the index is asked, and the process exits when that fails
\* (util::abort); pc tells whether the index was asked
ToCfgString ==
    /\ pc = "start"
    /\ IF Len(cs) = 0
       THEN \E info \in VersionInfos :
               IF info.ok
               THEN /\ pc' = "to_cfg_string_latest"
                    /\ text' = to_cfg_string(Req(req.name, cs, None, None, None), info)
               ELSE pc' = "abort" /\ UNCHANGED text
       ELSE /\ pc' = "to_cfg_string"
            /\ text' = to_cfg_string(Req(req.name, cs, None, None, None), NoResult)
    /\ UNCHANGED <<a, b, c, cs, ranges1, ranges2, ord_out, bool_out, rng_out, parsed,
                   req, added, cfg, merged>>

NextCfg == PushCfgConstraint \/ ToCfgString

SpecCfg == InitCfg /\ [][NextCfg]_vars

\* the operator token of a constraint in a manifest line: none for Exact
CfgToken(type_) ==
    CASE type_ = "Exact" -> << >>
      [] type_ = "Gte" -> <<">", "=">>
      [] type_ = "Lte" -> <<"<", "=">>
      [] type_ = "Gt" -> <<">">>
      [] type_ = "Lt" -> <<"<">>
      [] type_ = "Ne" -> <<"!", "=">>
      [] type_ = "Caret" -> <<"^">>
      [] type_ = "Tilde" -> <<"~">>

\* major.minor.patch
PlainVersion(v) ==
    u32_to_string(v.major) \o <<".">> \o u32_to_string(v.minor) \o <<".">>
      \o u32_to_string(v.patch)

\* the constraints of a list, each its token and the rendering of its version,
\* joined by ", "
CfgList(constraints, rendering(_)) ==
    LET upto[k \in 0..Len(constraints)] ==
            IF k = 0 THEN << >>
            ELSE upto[k - 1] \o (IF k > 1 THEN <<",", " ">> ELSE << >>)
                   \o CfgToken(constraints[k].type_) \o rendering(constraints[k].version)
    IN  upto[Len(constraints)]

\* the index is asked exactly when the list of constraints is empty, and the
\* process exits only when it was asked
LookupOnlyWhenEmpty ==
    /\ pc = "to_cfg_string" => cs # << >>
    /\ pc \in {"to_cfg_string_latest", "abort"} => cs = << >>

\* C23 as stated: with constraints to_cfg_string returns name = "c1, c2, ...",
\* each constraint its operator token (none for Exact) and major.minor.patch
\* of its version, and asks the index only without constraints
C23_ToCfgString ==
    /\ LookupOnlyWhenEmpty
    /\ pc = "to_cfg_string" =>
          text = req.name \o <<" ", "=", " ", "\"">> \o CfgList(cs, PlainVersion) \o <<"\"">>

\* C23: with constraints to_cfg_string returns name = "c1, c2, ...", each
\* constraint its operator token (none for Exact) and the full rendering of its
\* version, major.minor.patch and the suffix of extra_num and modifier, and the
\* index is asked only without constraints, a failed lookup ending the process
C23_ToCfgStringFull ==
    /\ LookupOnlyWhenEmpty
    /\ pc = "to_cfg_string" =>
          text = req.name \o <<" ", "=", " ", "\"">> \o CfgList(cs, to_string2) \o <<"\"">>

C23_Witness ==
    /\ pc = "to_cfg_string"
    /\ Len(cs) = 2
    /\ cs[1].type_ = "Exact"
    /\ cs[2].version.modifier # None

-----------------------------------------------------------------------------
(* standardize_name and compare_names *)

\* the characters of the names compared: a capital and its small letter, the
\* two separators, and a capital whose small form is two characters
NameChars == {"A", "a", "-", "_", "U+0130"}

RECURSIVE TextsUpTo(_, _)
\* the texts of at most n characters of a set
TextsUpTo(chars, n) ==
    IF n = 0 THEN {<< >>}
    ELSE TextsUpTo(chars, n - 1)
           \cup {Append(t, ch) : t \in TextsUpTo(chars, n - 1), ch \in chars}

NameTexts == TextsUpTo(NameChars, MaxName)

\* the third name, which transitivity is about, is drawn from fewer characters
ThirdNameTexts == TextsUpTo({"a", "_", "U+0130"}, MaxName)

InitNames ==
    /\ pc = "start"
    /\ a = NoVersion
    /\ b = NoVersion
    /\ c = NoConstraint
    /\ cs = << >>
    /\ ranges1 = << >>
    /\ ranges2 = << >>
    /\ ord_out = "Equal"
    /\ bool_out = FALSE
    /\ rng_out = << >>
    /\ text = << >>
    /\ parsed = NoResult
    /\ req = NoReq
    /\ \E name1 \in NameTexts, name2 \in NameTexts, name3 \in ThirdNameTexts :
          added = <<name1, name2, name3>>
    /\ cfg = << >>
    /\ merged = << >>

\* text = standardize_name(&added[1])
StandardizeName ==
    /\ pc = "start"
    /\ pc' = "standardize_name"
    /\ text' = standardize_name(added[1])
    /\ UNCHANGED <<a, b, c, cs, ranges1, ranges2, ord_out, bool_out, rng_out, parsed, req,
                   added, cfg, merged>>

\* bool_out = compare_names(&added[1], &added[2])
CompareNames ==
    /\ pc = "start"
    /\ pc' = "compare_names"
    /\ bool_out' = compare_names(added[1], added[2])
    /\ UNCHANGED <<a, b, c, cs, ranges1, ranges2, ord_out, rng_out, text, parsed, req,
                   added, cfg, merged>>

NextNames == StandardizeName \/ CompareNames

SpecNames == InitNames /\ [][NextNames]_vars

\* the small letter of a character
Lowered(ch) ==
    CASE ch = "A" -> <<"a">>
      [] ch = "U+0130" -> <<"i", "U+0307">>
      [] OTHER -> <<ch>>

RECURSIVE Folded(_)
\* a name with every character lowered and every '-' turned into '_'
Folded(name) ==
    IF name = << >> THEN << >>
    ELSE (IF Head(name) = "-" THEN <<"_">> ELSE Lowered(Head(name))) \o Folded(Tail(name))

\* C24: compare_names(n1, n2) is true exactly when the names are equal after
\* lower-casing and replacing '-' by '_'; it is reflexive, symmetric and
\* transitive, and standardize_name is idempotent
C24_CompareNames ==
    /\ pc = "compare_names" =>
          /\ bool_out = (Folded(added[1]) = Folded(added[2]))
          /\ compare_names(added[1], added[1])
          /\ bool_out = compare_names(added[2], added[1])
          /\ (bool_out /\ compare_names(added[2], added[3]))
                => compare_names(added[1], added[3])
    /\ pc = "standardize_name" => standardize_name(text) = text

C24_Witness ==
    /\ pc = "compare_names"
    /\ bool_out
    /\ added[1] # added[2]
    /\ added[2] # added[3]
    /\ compare_names(added[2], added[3])
    /\ \E i \in 1..Len(added[1]) : added[1][i] = "U+0130"

-----------------------------------------------------------------------------
(* Constraint::from_wh_py_vers *)

\* the tags of the unit test python_version_from_warehouse
TestedTags ==
    {
      <<"p", "y", "3">>,
      <<"c", "p", "3", "5", ".", "c", "p", "3", "6", ".", "c", "p", "3", "7", ".", "c", "p", "3", "8">>,
      <<"c", "p", "2", "6">>,
      <<"p", "y", "2", ".", "p", "y", "3">>,
      <<"p", "p", "3", "6">>,
      <<"a", "n", "y">>,
      <<"2", ".", "7">> }

\* tags with a minor of two digits
LaterTags == { <<"c", "p", "3", "1", "0">>, <<"c", "p", "3", "9", ".", "c", "p", "3", "1", "0">> }

\* the pieces a tag is put together from: the prefixes, the majors the regex
\* knows and one it does not, a minor, the dot, a letter, a digit outside ASCII
WhTokens ==
    { <<"c", "p">>, <<"p", "y">>, <<"p", "p">>, <<"2">>, <<"3">>, <<"4">>, <<"5">>,
      <<"7">>, <<".">>, <<"x">>, <<"U+0663">> }

InitWh ==
    /\ pc = "start"
    /\ a = NoVersion
    /\ b = NoVersion
    /\ c = NoConstraint
    /\ cs = << >>
    /\ ranges1 = << >>
    /\ ranges2 = << >>
    /\ ord_out = "Equal"
    /\ bool_out = FALSE
    /\ rng_out = << >>
    /\ text \in {<< >>} \cup TestedTags \cup LaterTags
    /\ parsed = NoResult
    /\ req = NoReq
    /\ added = << >>
    /\ cfg = << >>
    /\ merged = << >>

\* the caller extends the tag
PushWhToken ==
    /\ pc = "start"
    /\ Len(text) < MaxText
    /\ \E token \in WhTokens : text' = text \o token
    /\ UNCHANGED <<pc, a, b, c, cs, ranges1, ranges2, ord_out, bool_out, rng_out, parsed,
                   req, added, cfg, merged>>

\* parsed = Constraint::from_wh_py_vers(text)
FromWhPyVers ==
    /\ pc = "start"
    /\ pc' = "from_wh_py_vers"
    /\ parsed' = from_wh_py_vers(text)
    /\ UNCHANGED <<a, b, c, cs, ranges1, ranges2, ord_out, bool_out, rng_out, text, req,
                   added, cfg, merged>>

NextWh == PushWhToken \/ FromWhPyVers

SpecWh == InitWh /\ [][NextWh]_vars

\* the parts of a tag between its dots
PartsOf(t) ==
    LET dots == {i \in 1..Len(t) : t[i] = "."}
        cut(k) == IF k = 0 THEN 0
                  ELSE IF k > Cardinality(dots) THEN Len(t) + 1
                  ELSE CHOOSE i \in dots : Cardinality({j \in dots : j <= i}) = k
    IN  [k \in 1..(Cardinality(dots) + 1) |-> SubSeq(t, cut(k - 1) + 1, cut(k) - 1)]

\* a part without its prefix cp, py or pp
Unprefixed(part) ==
    IF \E prefix \in {<<"c", "p">>, <<"p", "y">>, <<"p", "p">>} : has_at(part, 1, prefix)
    THEN SubSeq(part, 3, Len(part))
    ELSE part

\* the Constraint a part of a tag stands for
PartConstraint(part) ==
    LET digits == Unprefixed(part)
    IN  IF Len(digits) = 2
        THEN Constraint("Exact", new(digit_value(digits[1]), digit_value(digits[2]), 0))
        ELSE IF digits = <<"2">> THEN Constraint("Lte", new(2, 10, 0))
        ELSE Constraint("Gte", new(3, 0, 0))

\* C27: "any" gives [Gte(2.0.0)], a text that parses as a Version gives
\* [Exact(version)], and every other tag gives one Constraint for each of its
\* parts, in order: Exact(major.minor) for a part with a minor digit,
\* Lte(2.10) for major 2 alone, Gte(3.0) for another major alone
C27_FromWhPyVers ==
    pc = "from_wh_py_vers" =>
      IF text = <<"a", "n", "y">> THEN parsed = Ok(<<Constraint("Gte", new(2, 0, 0))>>)
      ELSE IF Version_from_str(text).ok
      THEN parsed = Ok(<<Constraint("Exact", Version_from_str(text).value)>>)
      ELSE /\ parsed.ok
           /\ Len(parsed.value) = Len(PartsOf(text))
           /\ \A k \in 1..Len(PartsOf(text)) :
                 parsed.value[k] = PartConstraint(PartsOf(text)[k])

-----------------------------------------------------------------------------
(* merge_reqs *)

\* names that differ in case or in the separator, and one that does not
MergeNames == { <<"d">>, <<"D">>, <<"d", "-", "b">>, <<"d", "_", "b">> }

\* the Reqs of the config: without constraints, pinned, with a Caret
ConfigReqs ==
    {Req(name, constraints, None, None, None) :
        name \in MergeNames,
        constraints \in { << >>, <<Constraint("Exact", new(1, 0, 0))>>,
                          <<Constraint("Caret", new(2, 0, 0))>> }}

\* the lines added: a bare name, a name with a version, with a Caret, and a
\* line whose version part is none
AddedLines ==
    {[name |-> name, versions |-> FALSE, vers |-> << >>] : name \in MergeNames}
      \cup {[name |-> name, versions |-> TRUE, vers |-> vers] :
               name \in MergeNames,
               vers \in { <<"1", ".", "0", ".", "0">>, <<"^", "2", ".", "0", ".", "0">>,
                          <<"x">> }}

\* the results of dep_resolution::get_version_info: the latest version, or an
\* error
LatestVersions == { Ok(new(2, 0, 0)), Err(<<"Problem getting version info">>) }

InitMerge ==
    /\ pc = "start"
    /\ a = NoVersion
    /\ b = NoVersion
    /\ c = NoConstraint
    /\ cs = << >>
    /\ ranges1 = << >>
    /\ ranges2 = << >>
    /\ ord_out = "Equal"
    /\ bool_out = FALSE
    /\ rng_out = << >>
    /\ text = << >>
    /\ parsed = NoResult
    /\ req = NoReq
    /\ added = << >>
    /\ cfg = << >>
    /\ merged = << >>

\* the config holds one more Req
PushConfigReq ==
    /\ pc = "start"
    /\ Len(cfg) < MaxLen
    /\ \E cr \in ConfigReqs : cfg' = Append(cfg, cr)
    /\ UNCHANGED <<pc, a, b, c, cs, ranges1, ranges2, ord_out, bool_out, rng_out, text,
                   parsed, req, added, merged>>

\* the command line holds one more package
PushAdded ==
    /\ pc = "start"
    /\ Len(added) < MaxLen
    /\ \E line \in AddedLines : added' = Append(added, line)
    /\ UNCHANGED <<pc, a, b, c, cs, ranges1, ranges2, ord_out, bool_out, rng_out, text,
                   parsed, req, cfg, merged>>

\* merged = merge_reqs(&added, &cfg, cfg_filename): a line that does not parse
\* ends the process (abort), a failed lookup of the latest version panics
\* (expect); the Reqs written to the config file by files::add_reqs_to_cfg are
\* the added Reqs kept, the tail of merged
MergeReqs ==
    /\ pc = "start"
    /\ LET synced(unique, latest) ==
               IF ~latest.ok /\ \E k \in 1..Len(unique) : unique[k].constraints = << >>
               THEN pc' = "panic" /\ UNCHANGED merged
               ELSE /\ pc' = "merge_reqs"
                    /\ merged' = merge(with_latest(unique,
                                                   IF latest.ok THEN latest.value
                                                   ELSE NoVersion),
                                       cfg)
           parsed_all(parsed_) ==
               IF \E k \in 1..Len(parsed_) : ~parsed_[k].ok
               THEN pc' = "abort" /\ UNCHANGED merged
               ELSE \E latest \in LatestVersions :
                       synced(added_reqs_unique(parsed_, cfg), latest)
       IN  parsed_all(added_reqs(added))
    /\ UNCHANGED <<a, b, c, cs, ranges1, ranges2, ord_out, bool_out, rng_out, text,
                   parsed, req, added, cfg>>

NextMerge == PushConfigReq \/ PushAdded \/ MergeReqs

SpecMerge == InitMerge /\ [][NextMerge]_vars

\* the names of a list are pairwise distinct under compare_names
DistinctNames(list) ==
    \A j, k \in 1..Len(list) : j # k => ~compare_names(list[j].name, list[k].name)

\* the Reqs of a list that have the name, under compare_names
Named(list, name) == {k \in 1..Len(list) : compare_names(list[k].name, name)}

\* C28: with names distinct in the config and distinct in the added list,
\* merge_reqs returns exactly one Req for every name of the config or of the
\* added list: the added one for a name in both with other constraints, the
\* config Req for a name only in the config, in config order
C28_MergeReqs ==
    (pc = "merge_reqs" /\ DistinctNames(cfg) /\ DistinctNames(added)) =>
      /\ \A k \in 1..Len(cfg) : Cardinality(Named(merged, cfg[k].name)) = 1
      /\ \A k \in 1..Len(added) : Cardinality(Named(merged, added[k].name)) = 1
      /\ \A k \in 1..Len(cfg) :
            Named(added, cfg[k].name) = {} => merged[k] = cfg[k]

-----------------------------------------------------------------------------
(* intersection *)

\* the bounds of the ranges built: 0.0.0, 0.0.0.0 (which compares Equal to it)
\* and 0.0.1
RangeEnds == {new(0, 0, 0), Version(0, 0, 0, Some(0), None), new(0, 0, 1)}

\* the (min, max) pairs over them with min <= max, and one with min above max
Ranges ==
    {r \in RangeEnds \X RangeEnds : le(r[1], r[2])} \cup {<<new(0, 0, 1), new(0, 0, 0)>>}

\* the arguments of the unit tests intersections_simple and intersection_contained
TestedRanges ==
    { << << <<new(4, 9, 4), _max>> >>, << <<new(4, 3, 1), _max>> >> >>,
      << << <<new(3, 0, 0), new(3, 9, 0)>> >>, << <<new(3, 3, 6), new(3, 3, 6)>> >> >>,
      << << <<new(4, 9, 2), _max>> >>, << <<new(4, 9, 4), new(5, 5, 4)>> >> >> }

InitInter ==
    /\ pc = "start"
    /\ a = NoVersion
    /\ b = NoVersion
    /\ c = NoConstraint
    /\ cs = << >>
    /\ \E args \in {<< << >>, << >> >>} \cup TestedRanges :
          ranges1 = args[1] /\ ranges2 = args[2]
    /\ ord_out = "Equal"
    /\ bool_out = FALSE
    /\ rng_out = << >>
    /\ text = << >>
    /\ parsed = NoResult
    /\ added = << >>
    /\ cfg = << >>
    /\ merged = << >>
    /\ req = NoReq

\* the caller appends a range to the first argument
PushRange1 ==
    /\ pc = "start"
    /\ Len(ranges1) < MaxRanges
    /\ \E rng \in Ranges : ranges1' = Append(ranges1, rng)
    /\ UNCHANGED <<pc, a, b, c, cs, ranges2, ord_out, bool_out, rng_out, text, parsed,
                   req, added, cfg, merged>>

\* the caller appends a range to the second argument
PushRange2 ==
    /\ pc = "start"
    /\ Len(ranges2) < MaxRanges
    /\ \E rng \in Ranges : ranges2' = Append(ranges2, rng)
    /\ UNCHANGED <<pc, a, b, c, cs, ranges1, ord_out, bool_out, rng_out, text, parsed,
                   req, added, cfg, merged>>

\* rng_out = intersection(&ranges1, &ranges2)
Intersection ==
    /\ pc = "start"
    /\ pc' = "intersection"
    /\ rng_out' = intersection(ranges1, ranges2)
    /\ UNCHANGED <<a, b, c, cs, ranges1, ranges2, ord_out, bool_out, text, parsed, req,
                   added, cfg, merged>>

NextInter == PushRange1 \/ PushRange2 \/ Intersection

SpecInter == InitInter /\ [][NextInter]_vars

\* the pairs (i, j) with ranges1[i] = r1 and ranges2[j] = r2 such that
\* r2.max >= r1.min and r1.max >= r2.min
OverlappingPairs ==
    {p \in (1..Len(ranges1)) \X (1..Len(ranges2)) :
        /\ cmp(ranges2[p[2]][2], ranges1[p[1]][1]) # "Less"
        /\ cmp(ranges1[p[1]][2], ranges2[p[2]][1]) # "Less"}

\* the place of the pair p among the pairs P, r1 by r1 and r2 by r2
PlaceOf(p, P) ==
    Cardinality({q \in P : q[1] < p[1] \/ (q[1] = p[1] /\ q[2] <= p[2])})

\* C9: intersection(ranges1, ranges2) holds one range per pair (r1, r2) with
\* r2.max >= r1.min and r1.max >= r2.min and nothing else, and the range of
\* such a pair is (max(r1.min, r2.min), min(r1.max, r2.max)).
C9_PairwiseOverlaps ==
    pc = "intersection" =>
        LET P == OverlappingPairs
        IN  /\ Len(rng_out) = Cardinality(P)
            /\ \A p \in P :
                  LET r1 == ranges1[p[1]]
                      r2 == ranges2[p[2]]
                      o == rng_out[PlaceOf(p, P)]
                  IN  /\ o[1] \in {r1[1], r2[1]}
                      /\ cmp(o[1], r1[1]) # "Less" /\ cmp(o[1], r2[1]) # "Less"
                      /\ o[2] \in {r1[2], r2[2]}
                      /\ cmp(o[2], r1[2]) # "Greater" /\ cmp(o[2], r2[2]) # "Greater"

\* two lists of two ranges were intersected; some pairs overlap, some do not
C9_Witness ==
    /\ pc = "intersection"
    /\ Len(ranges1) = 2 /\ Len(ranges2) = 2
    /\ Len(rng_out) \in 1..3
    /\ \E k \in 1..Len(rng_out) : rng_out[k][1] # rng_out[k][2]

\* x lies inside some range of the list: min <= x and x <= max
InsideSome(x, ranges) ==
    \E k \in 1..Len(ranges) : le(ranges[k][1], x) /\ le(x, ranges[k][2])

\* every range of the list has min <= max
WellFormed(ranges) == \A k \in 1..Len(ranges) : le(ranges[k][1], ranges[k][2])

\* C29: for lists ranges1 and ranges2 of ranges with min <= max, a Version x lies
\* inside some range of intersection(ranges1, ranges2) exactly when it lies inside
\* some range of ranges1 and inside some range of ranges2, and every returned
\* range has min <= max.
C29_SetIntersection ==
    (pc = "intersection" /\ WellFormed(ranges1) /\ WellFormed(ranges2)) =>
        /\ \A x \in Versions :
              InsideSome(x, rng_out) <=> (InsideSome(x, ranges1) /\ InsideSome(x, ranges2))
        /\ WellFormed(rng_out)

=============================================================================
